---- MODULE Spec2Model ----
(***************************************************************************)
(* Model of the class-file decoder and the archive aggregation pass of     *)
(* src/src/parser.js (parseClassFile, parseJar, getTopMethods).            *)
(*                                                                         *)
(* Encoding of the JavaScript values:                                      *)
(*  - a buffer (ArrayBuffer / DataView) is a sequence of bytes 0..255; the *)
(*    byte at JavaScript offset k is view[k + 1];                          *)
(*  - a JavaScript number that can exceed 2^31 - 1 (a 32-bit unsigned      *)
(*    field, an offset that had such a field added to it) is a pair        *)
(*    <<hi, lo>> standing for hi * 65536 + lo, with lo in 0..65535: the    *)
(*    code computes on doubles, which hold these values exactly, and the   *)
(*    pair keeps them exact too;                                           *)
(*  - a JavaScript string is a sequence of code points, and a message is   *)
(*    a sequence of one-character or literal string fragments;             *)
(*  - a thrown exception is a record [name, message]; every operator that  *)
(*    models a function that can throw returns a record with an err field, *)
(*    NoError when the function returned normally;                         *)
(*  - the constant pool array is a sequence whose element i + 1 is the     *)
(*    JavaScript slot i.                                                   *)
(***************************************************************************)
EXTENDS Integers, Sequences, FiniteSets, TLC

----------------------------------------------------------------------------
(* Numbers *)

Base == 256 * 256

\* The number n (n < 2^31) as a pair.
W(n) == <<n \div Base, n % Base>>

Zero == <<0, 0>>

\* a + b on pairs.
Add(a, b) == <<a[1] + b[1] + ((a[2] + b[2]) \div Base), (a[2] + b[2]) % Base>>

\* a + n for a pair a and a small n.
AddN(a, n) == Add(a, W(n))

\* a <= b and a < b on pairs.
LE(a, b) == a[1] < b[1] \/ (a[1] = b[1] /\ a[2] <= b[2])
LT(a, b) == a[1] < b[1] \/ (a[1] = b[1] /\ a[2] < b[2])

\* The sign of the double a - b: -1, 0 or 1.
SignOfDifference(a, b) == IF LT(a, b) THEN -1 ELSE IF a = b THEN 0 ELSE 1

\* F applied to the value of v, with v evaluated once.
Bind(v, F(_)) == CHOOSE r \in {F(x) : x \in {v}} : TRUE

----------------------------------------------------------------------------
(* Exceptions *)

NoError == [name |-> "none", message |-> <<>>]

\* What DataView.getUintN throws when the requested bytes do not lie inside
\* the buffer.
RangeError == [name |-> "RangeError", message |-> <<"Offset is outside the bounds of the DataView">>]

Error(message) == [name |-> "Error", message |-> message]

HexDigit(d) == <<"0","1","2","3","4","5","6","7","8","9","A","B","C","D","E","F">>[d + 1]
DecDigit(d) == <<"0","1","2","3","4","5","6","7","8","9">>[d + 1]

RECURSIVE DigitsOf(_, _)
\* The digits of n in the given radix, most significant first, no leading zero.
DigitsOf(n, radix) ==
    IF n < radix THEN <<n>> ELSE Append(DigitsOf(n \div radix, radix), n % radix)

\* String(n) for a small n, as in a template literal.
Dec(n) == [i \in 1..Len(DigitsOf(n, 10)) |-> DecDigit(DigitsOf(n, 10)[i])]

\* n.toString(16).toUpperCase() for a 32-bit pair.
HexUpper(n) ==
    LET hi == DigitsOf(n[1], 16)
        lo == DigitsOf(n[2], 16)
        pad == [i \in 1..(4 - Len(lo)) |-> 0]
        ds == IF n[1] = 0 THEN lo ELSE hi \o pad \o lo
    IN  [i \in 1..Len(ds) |-> HexDigit(ds[i])]

\* What the Uint8Array constructor, called with a length, throws when the
\* array does not lie inside the buffer, wherever it starts.
InvalidLengthError(length) ==
    [name |-> "RangeError", message |-> <<"Invalid typed array length: ">> \o Dec(length)]

----------------------------------------------------------------------------
(* DataView reads, big-endian *)

\* Whether the n bytes at offset lie inside the buffer.
InView(view, offset, n) == LE(AddN(offset, n), W(Len(view)))

ByteAt(view, offset, k) == view[offset[1] * Base + offset[2] + k + 1]

getUint8(view, offset) ==
    IF InView(view, offset, 1)
    THEN [err |-> NoError, v |-> ByteAt(view, offset, 0)]
    ELSE [err |-> RangeError, v |-> 0]

getUint16(view, offset) ==
    IF InView(view, offset, 2)
    THEN [err |-> NoError, v |-> ByteAt(view, offset, 0) * 256 + ByteAt(view, offset, 1)]
    ELSE [err |-> RangeError, v |-> 0]

\* A read that takes the bytes outside the buffer to be zero.
getUint32ZeroFilled(view, offset) ==
    [err |-> NoError,
     v |-> LET B(k) == IF InView(view, offset, k + 1) THEN ByteAt(view, offset, k) ELSE 0
           IN  <<B(0) * 256 + B(1), B(2) * 256 + B(3)>>]

getUint32(view, offset) ==
    IF InView(view, offset, 4)
    THEN [err |-> NoError,
          v |-> <<ByteAt(view, offset, 0) * 256 + ByteAt(view, offset, 1),
                  ByteAt(view, offset, 2) * 256 + ByteAt(view, offset, 3)>>]
    ELSE [err |-> RangeError, v |-> Zero]

\* new Uint8Array(view.buffer, view.byteOffset + offset, length): a view on
\* length bytes, or a RangeError when they do not all lie inside the buffer.
Uint8ArrayOf(view, offset, length) ==
    IF InView(view, offset, length)
    THEN [err |-> NoError,
          v |-> SubSeq(view, offset[1] * Base + offset[2] + 1,
                       offset[1] * Base + offset[2] + length)]
    ELSE [err |-> InvalidLengthError(length), v |-> <<>>]

----------------------------------------------------------------------------
(* new TextDecoder().decode(bytes): the WHATWG UTF-8 decoder, replacement   *)
(* error mode, with a leading byte order mark removed.                      *)

ReplacementChar == 65533
ByteOrderMark == 65279

Utf8Start == [cp |-> 0, needed |-> 0, seen |-> 0, lower |-> 128, upper |-> 191]

RECURSIVE Utf8Run(_, _, _, _)
Utf8Run(bytes, i, st, out) ==
    IF i > Len(bytes)
    THEN IF st.needed # 0 THEN Append(out, ReplacementChar) ELSE out
    ELSE LET b == bytes[i] IN
         IF st.needed = 0
         THEN IF b <= 127 THEN Utf8Run(bytes, i + 1, st, Append(out, b))
              ELSE IF b >= 194 /\ b <= 223
                   THEN Utf8Run(bytes, i + 1, [st EXCEPT !.needed = 1, !.cp = b % 32], out)
              ELSE IF b >= 224 /\ b <= 239
                   THEN Utf8Run(bytes, i + 1,
                                [st EXCEPT !.needed = 2, !.cp = b % 16,
                                           !.lower = IF b = 224 THEN 160 ELSE 128,
                                           !.upper = IF b = 237 THEN 159 ELSE 191], out)
              ELSE IF b >= 240 /\ b <= 244
                   THEN Utf8Run(bytes, i + 1,
                                [st EXCEPT !.needed = 3, !.cp = b % 8,
                                           !.lower = IF b = 240 THEN 144 ELSE 128,
                                           !.upper = IF b = 244 THEN 143 ELSE 191], out)
              ELSE Utf8Run(bytes, i + 1, st, Append(out, ReplacementChar))
         ELSE IF b < st.lower \/ b > st.upper
              \* the byte is given back to the stream and decoded again
              THEN Utf8Run(bytes, i, Utf8Start, Append(out, ReplacementChar))
              ELSE LET cp == st.cp * 64 + (b % 64) IN
                   IF st.seen + 1 = st.needed
                   THEN Utf8Run(bytes, i + 1, Utf8Start, Append(out, cp))
                   ELSE Utf8Run(bytes, i + 1,
                                [st EXCEPT !.cp = cp, !.seen = st.seen + 1,
                                           !.lower = 128, !.upper = 191], out)

TextDecode(bytes) ==
    LET out == Utf8Run(bytes, 1, Utf8Start, <<>>) IN
    IF Len(out) > 0 /\ out[1] = ByteOrderMark THEN Tail(out) ELSE out

\* The string literal 'Code'.
CodeName == <<67, 111, 100, 101>>

----------------------------------------------------------------------------
(* Constant pool *)

\* The magic number 0xCAFEBABE.
MAGIC == <<51966, 47806>>

\* A slot of the constant pool array: an entry object, null, or (for an
\* index outside the array) undefined.  Fields an entry object does not
\* have are left at their defaults and are never read.
Entry(tag, value, nameIndex, descriptorIndex) ==
    [kind |-> "entry", tag |-> tag, value |-> value,
     nameIndex |-> nameIndex, descriptorIndex |-> descriptorIndex]

Null == [kind |-> "null", tag |-> 0, value |-> <<>>, nameIndex |-> 0, descriptorIndex |-> 0]

Undefined == [kind |-> "undefined", tag |-> 0, value |-> <<>>, nameIndex |-> 0, descriptorIndex |-> 0]

\* constantPool[index]
Slot(constantPool, index) ==
    IF index + 1 \in DOMAIN constantPool THEN constantPool[index + 1] ELSE Undefined

\* The payload width of the tags whose case only advances the offset.
SkipWidth(tag) ==
    CASE tag \in {3, 4, 9, 10, 11, 17, 18} -> 4
      [] tag \in {8, 16, 19, 20} -> 2
      [] tag = 15 -> 3
      [] tag \in {5, 6} -> 8

\* The error naming the tag only.
UnknownTagErrorWithoutIndex(tag, index) == Error(<<"Unknown tag: ">> \o Dec(tag))

UnknownTagError(tag, index) ==
    Error(<<"Unknown constant pool tag: ">> \o Dec(tag) \o <<" at index ">> \o Dec(index))

\* A Long or Double pushed without the null that follows it.
DoubleSlotWithoutPlaceholder(entry) == <<entry>>

\* A Long or Double pushed with two nulls behind it.
DoubleSlotWithTwoPlaceholders(entry) == <<entry, Null, Null>>

\* constantPool.push(entry); constantPool.push(null)
DoubleSlot(entry) == <<entry, Null>>

\* An iteration that takes no entry: nothing pushed, offset and index kept.
ConstantEntryTakingNothing(view, offset, index) ==
    [err |-> NoError, slots |-> <<>>, offset |-> offset, index |-> index]

\* One iteration of the constant pool loop, entered with index < count:
\* the slots pushed, the offset and the index after it.
ConstantEntry(view, offset, index) ==
    LET t == getUint8(view, offset)
        tag == t.v
        o1 == AddN(offset, 1)
        Thrown(e, o) == [err |-> e, slots |-> <<>>, offset |-> o, index |-> index]
        One(entry, o) == [err |-> NoError, slots |-> <<entry>>, offset |-> o, index |-> index + 1]
    IN  IF t.err # NoError THEN Thrown(t.err, offset)
        ELSE IF tag = 1
        THEN LET length == getUint16(view, o1)
                 o3 == AddN(o1, 2)
                 bytes == Uint8ArrayOf(view, o3, length.v)
             IN  IF length.err # NoError THEN Thrown(length.err, o1)
                 ELSE IF bytes.err # NoError THEN Thrown(bytes.err, o3)
                 ELSE One(Entry(tag, TextDecode(bytes.v), 0, 0), AddN(o3, length.v))
        ELSE IF tag \in {5, 6}
        THEN [err |-> NoError, slots |-> DoubleSlot(Entry(tag, <<>>, 0, 0)),
              offset |-> AddN(o1, SkipWidth(tag)), index |-> index + 2]
        ELSE IF tag = 7
        THEN LET nameIndex == getUint16(view, o1)
             IN  IF nameIndex.err # NoError THEN Thrown(nameIndex.err, o1)
                 ELSE One(Entry(tag, <<>>, nameIndex.v, 0), AddN(o1, 2))
        ELSE IF tag = 12
        THEN LET nameIndex == getUint16(view, o1)
                 descriptorIndex == getUint16(view, AddN(o1, 2))
             IN  IF nameIndex.err # NoError THEN Thrown(nameIndex.err, o1)
                 ELSE IF descriptorIndex.err # NoError
                 THEN Thrown(descriptorIndex.err, AddN(o1, 2))
                 ELSE One(Entry(tag, <<>>, nameIndex.v, descriptorIndex.v), AddN(o1, 4))
        ELSE IF tag \in {3, 4, 8, 9, 10, 11, 15, 16, 17, 18, 19, 20}
        THEN One(Entry(tag, <<>>, 0, 0), AddN(o1, SkipWidth(tag)))
        ELSE Thrown(UnknownTagError(tag, index), o1)

RECURSIVE PoolLoop(_, _, _, _, _)
\* while (index < constantPoolCount) { ... }
PoolLoop(view, offset, index, constantPoolCount, constantPool) ==
    IF ~(index < constantPoolCount)
    THEN [err |-> NoError, constantPool |-> constantPool, newOffset |-> offset]
    ELSE Bind(ConstantEntry(view, offset, index), LAMBDA r :
           IF r.err # NoError
           THEN [err |-> r.err, constantPool |-> constantPool, newOffset |-> r.offset]
           ELSE PoolLoop(view, r.offset, r.index, constantPoolCount, constantPool \o r.slots))

parseConstantPool(view, offset) ==
    LET constantPoolCount == getUint16(view, offset) IN
    IF constantPoolCount.err # NoError
    THEN [err |-> constantPoolCount.err, constantPool |-> <<>>, newOffset |-> offset]
    ELSE PoolLoop(view, AddN(offset, 2), 1, constantPoolCount.v, <<Null>>)

\* !entry
Falsy(entry) == entry.kind # "entry"

resolveClassName(constantPool, classIndex) ==
    LET classEntry == Slot(constantPool, classIndex)
        nameEntry == Slot(constantPool, classEntry.nameIndex)
    IN  IF Falsy(classEntry) \/ classEntry.tag # 7
        THEN [err |-> Error(<<"Invalid class reference at index ">> \o Dec(classIndex)), v |-> <<>>]
        ELSE IF Falsy(nameEntry) \/ nameEntry.tag # 1
        THEN [err |-> Error(<<"Invalid name reference at index ">> \o Dec(classEntry.nameIndex)),
              v |-> <<>>]
        ELSE [err |-> NoError, v |-> nameEntry.value]

\* constantPool[index].value taken without looking at the slot.
resolveUtf8Unchecked(constantPool, index) ==
    [err |-> NoError, v |-> Slot(constantPool, index).value]

resolveUtf8(constantPool, index) ==
    LET entry == Slot(constantPool, index) IN
    IF Falsy(entry) \/ entry.tag # 1
    THEN [err |-> Error(<<"Invalid UTF8 reference at index ">> \o Dec(index)), v |-> <<>>]
    ELSE [err |-> NoError, v |-> entry.value]

----------------------------------------------------------------------------
(* Fields and attributes *)

\* The iteration advancing by the declared length from the length field,
\* without the four bytes of the field itself.
SkipAttributeFromLengthField(view, offset) ==
    LET o2 == AddN(offset, 2)
        attributeLength == getUint32(view, o2)
    IN  IF attributeLength.err # NoError
        THEN [err |-> attributeLength.err, offset |-> o2]
        ELSE [err |-> NoError, offset |-> Add(o2, attributeLength.v)]

\* One iteration of the attribute loop of skipAttributes.
SkipAttribute(view, offset) ==
    LET o2 == AddN(offset, 2)
        attributeLength == getUint32(view, o2)
    IN  IF attributeLength.err # NoError
        THEN [err |-> attributeLength.err, offset |-> o2]
        ELSE [err |-> NoError, offset |-> Add(AddN(o2, 4), attributeLength.v)]

RECURSIVE SkipAttributesLoop(_, _, _, _)
\* for (let i = 0; i < attributesCount; i++) { ... } of skipAttributes
SkipAttributesLoop(view, offset, i, attributesCount) ==
    IF ~(i < attributesCount) THEN [err |-> NoError, offset |-> offset]
    ELSE Bind(SkipAttribute(view, offset), LAMBDA r :
           IF r.err # NoError THEN r
           ELSE SkipAttributesLoop(view, r.offset, i + 1, attributesCount))

skipAttributes(view, offset) ==
    LET attributesCount == getUint16(view, offset) IN
    IF attributesCount.err # NoError THEN [err |-> attributesCount.err, offset |-> offset]
    ELSE SkipAttributesLoop(view, AddN(offset, 2), 0, attributesCount.v)

RECURSIVE SkipFieldsLoop(_, _, _, _)
\* for (let i = 0; i < fieldsCount; i++) { ... } of skipFields
SkipFieldsLoop(view, offset, i, fieldsCount) ==
    IF ~(i < fieldsCount) THEN [err |-> NoError, offset |-> offset]
    ELSE Bind(skipAttributes(view, AddN(offset, 6)), LAMBDA r :
           IF r.err # NoError THEN r
           ELSE SkipFieldsLoop(view, r.offset, i + 1, fieldsCount))

skipFields(view, offset, constantPool) ==
    LET fieldsCount == getUint16(view, offset) IN
    IF fieldsCount.err # NoError THEN [err |-> fieldsCount.err, offset |-> offset]
    ELSE SkipFieldsLoop(view, AddN(offset, 2), 0, fieldsCount.v)

----------------------------------------------------------------------------
(* Methods *)

\* The attribute loop iteration with the code length read at offset, from
\* the max_stack and max_locals bytes, instead of offset + 4.
MethodAttributeReadingAtOffset(view, offset, constantPool, bytecodeSize) ==
    LET attributeNameIndex == getUint16(view, offset)
        o2 == AddN(offset, 2)
        attributeLength == getUint32(view, o2)
        o6 == AddN(o2, 4)
        attributeName == resolveUtf8(constantPool, attributeNameIndex.v)
        codeLength == getUint32(view, o6)
        Thrown(e) == [err |-> e, offset |-> offset, bytecodeSize |-> bytecodeSize]
    IN  IF attributeNameIndex.err # NoError THEN Thrown(attributeNameIndex.err)
        ELSE IF attributeLength.err # NoError THEN Thrown(attributeLength.err)
        ELSE IF attributeName.err # NoError THEN Thrown(attributeName.err)
        ELSE IF attributeName.v = CodeName
        THEN IF codeLength.err # NoError THEN Thrown(codeLength.err)
             ELSE [err |-> NoError, offset |-> Add(o6, attributeLength.v),
                   bytecodeSize |-> codeLength.v]
        ELSE [err |-> NoError, offset |-> Add(o6, attributeLength.v),
              bytecodeSize |-> bytecodeSize]

\* The iteration with a Code attribute left by its code: the position
\* moved behind max_stack, max_locals, code_length and code_length bytes.
MethodAttributeSkippingCode(view, offset, constantPool, bytecodeSize) ==
    LET attributeNameIndex == getUint16(view, offset)
        o2 == AddN(offset, 2)
        attributeLength == getUint32(view, o2)
        o6 == AddN(o2, 4)
        attributeName == resolveUtf8(constantPool, attributeNameIndex.v)
        codeLength == getUint32(view, AddN(o6, 4))
        Thrown(e) == [err |-> e, offset |-> offset, bytecodeSize |-> bytecodeSize]
    IN  IF attributeNameIndex.err # NoError THEN Thrown(attributeNameIndex.err)
        ELSE IF attributeLength.err # NoError THEN Thrown(attributeLength.err)
        ELSE IF attributeName.err # NoError THEN Thrown(attributeName.err)
        ELSE IF attributeName.v = CodeName
        THEN IF codeLength.err # NoError THEN Thrown(codeLength.err)
             ELSE [err |-> NoError, offset |-> Add(AddN(o6, 8), codeLength.v),
                   bytecodeSize |-> codeLength.v]
        ELSE [err |-> NoError, offset |-> Add(o6, attributeLength.v),
              bytecodeSize |-> bytecodeSize]

\* The iteration reading code_length only from a Code attribute that
\* declares the 8 bytes up to its end, and taking any other as code-less.
MethodAttributeCheckingLength(view, offset, constantPool, bytecodeSize) ==
    LET attributeNameIndex == getUint16(view, offset)
        o2 == AddN(offset, 2)
        attributeLength == getUint32(view, o2)
        o6 == AddN(o2, 4)
        attributeName == resolveUtf8(constantPool, attributeNameIndex.v)
        codeLength == getUint32(view, AddN(o6, 4))
        Thrown(e) == [err |-> e, offset |-> offset, bytecodeSize |-> bytecodeSize]
    IN  IF attributeNameIndex.err # NoError THEN Thrown(attributeNameIndex.err)
        ELSE IF attributeLength.err # NoError THEN Thrown(attributeLength.err)
        ELSE IF attributeName.err # NoError THEN Thrown(attributeName.err)
        ELSE IF attributeName.v = CodeName /\ LE(W(8), attributeLength.v)
        THEN IF codeLength.err # NoError THEN Thrown(codeLength.err)
             ELSE [err |-> NoError, offset |-> Add(o6, attributeLength.v),
                   bytecodeSize |-> codeLength.v]
        ELSE [err |-> NoError, offset |-> Add(o6, attributeLength.v),
              bytecodeSize |-> bytecodeSize]

\* One iteration of the attribute loop of parseMethodAttributes.
MethodAttribute(view, offset, constantPool, bytecodeSize) ==
    LET attributeNameIndex == getUint16(view, offset)
        o2 == AddN(offset, 2)
        attributeLength == getUint32(view, o2)
        o6 == AddN(o2, 4)
        attributeName == resolveUtf8(constantPool, attributeNameIndex.v)
        codeLength == getUint32(view, AddN(o6, 4))
        Thrown(e) == [err |-> e, offset |-> offset, bytecodeSize |-> bytecodeSize]
    IN  IF attributeNameIndex.err # NoError THEN Thrown(attributeNameIndex.err)
        ELSE IF attributeLength.err # NoError THEN Thrown(attributeLength.err)
        ELSE IF attributeName.err # NoError THEN Thrown(attributeName.err)
        ELSE IF attributeName.v = CodeName
        THEN IF codeLength.err # NoError THEN Thrown(codeLength.err)
             ELSE [err |-> NoError, offset |-> Add(o6, attributeLength.v),
                   bytecodeSize |-> codeLength.v]
        ELSE [err |-> NoError, offset |-> Add(o6, attributeLength.v),
              bytecodeSize |-> bytecodeSize]

RECURSIVE MethodAttributesLoop(_, _, _, _, _, _)
MethodAttributesLoop(view, offset, constantPool, i, attributesCount, bytecodeSize) ==
    IF ~(i < attributesCount)
    THEN [err |-> NoError, bytecodeSize |-> bytecodeSize, newOffset |-> offset]
    ELSE Bind(MethodAttribute(view, offset, constantPool, bytecodeSize), LAMBDA r :
           IF r.err # NoError
           THEN [err |-> r.err, bytecodeSize |-> bytecodeSize, newOffset |-> r.offset]
           ELSE MethodAttributesLoop(view, r.offset, constantPool, i + 1, attributesCount,
                                     r.bytecodeSize))

\* let bytecodeSize; left without its initial value (<<-1, -1>> for undefined).
parseMethodAttributesUninitialised(view, offset, constantPool) ==
    LET attributesCount == getUint16(view, offset) IN
    IF attributesCount.err # NoError
    THEN [err |-> attributesCount.err, bytecodeSize |-> Zero, newOffset |-> offset]
    ELSE MethodAttributesLoop(view, AddN(offset, 2), constantPool, 0, attributesCount.v,
                              <<-1, -1>>)

parseMethodAttributes(view, offset, constantPool) ==
    LET attributesCount == getUint16(view, offset) IN
    IF attributesCount.err # NoError
    THEN [err |-> attributesCount.err, bytecodeSize |-> Zero, newOffset |-> offset]
    ELSE MethodAttributesLoop(view, AddN(offset, 2), constantPool, 0, attributesCount.v, Zero)

\* One iteration of the method loop of parseMethods: the record pushed and
\* the offset after the method.
MethodInfo(view, offset, constantPool) ==
    LET accessFlags == getUint16(view, offset)
        nameIndex == getUint16(view, AddN(offset, 2))
        descriptorIndex == getUint16(view, AddN(offset, 4))
        name == resolveUtf8(constantPool, nameIndex.v)
        descriptor == resolveUtf8(constantPool, descriptorIndex.v)
        attrs == parseMethodAttributes(view, AddN(offset, 6), constantPool)
        Thrown(e, o) == [err |-> e, offset |-> o,
                         method |-> [name |-> <<>>, descriptor |-> <<>>, bytecodeSize |-> Zero]]
    IN  IF accessFlags.err # NoError THEN Thrown(accessFlags.err, offset)
        ELSE IF nameIndex.err # NoError THEN Thrown(nameIndex.err, AddN(offset, 2))
        ELSE IF descriptorIndex.err # NoError THEN Thrown(descriptorIndex.err, AddN(offset, 4))
        ELSE IF name.err # NoError THEN Thrown(name.err, AddN(offset, 6))
        ELSE IF descriptor.err # NoError THEN Thrown(descriptor.err, AddN(offset, 6))
        ELSE IF attrs.err # NoError THEN Thrown(attrs.err, AddN(offset, 6))
        ELSE [err |-> NoError, offset |-> attrs.newOffset,
              method |-> [name |-> name.v, descriptor |-> descriptor.v,
                          bytecodeSize |-> attrs.bytecodeSize]]

\* The record put in front of the list instead of at its end.
UnshiftMethod(methodList, method) == <<method>> \o methodList

\* methods.push({ name, descriptor, bytecodeSize })
PushMethod(methodList, method) == Append(methodList, method)

RECURSIVE MethodsLoop(_, _, _, _, _, _)
MethodsLoop(view, offset, constantPool, i, methodsCount, methods) ==
    IF ~(i < methodsCount) THEN [err |-> NoError, methods |-> methods, offset |-> offset]
    ELSE Bind(MethodInfo(view, offset, constantPool), LAMBDA r :
           IF r.err # NoError THEN [err |-> r.err, methods |-> methods, offset |-> r.offset]
           ELSE MethodsLoop(view, r.offset, constantPool, i + 1, methodsCount,
                            PushMethod(methods, r.method)))

parseMethods(view, offset, constantPool) ==
    LET methodsCount == getUint16(view, offset) IN
    IF methodsCount.err # NoError
    THEN [err |-> methodsCount.err, methods |-> <<>>, offset |-> offset]
    ELSE MethodsLoop(view, AddN(offset, 2), constantPool, 0, methodsCount.v, <<>>)

----------------------------------------------------------------------------
(* parseClassFile *)

\* The message without the value read.
BadMagicErrorWithoutValue(magic) == Error(<<"Invalid class file">>)

BadMagicError(magic) ==
    Error(<<"Invalid class file: expected magic number 0xCAFEBABE, got 0x">> \o HexUpper(magic))

\* What parseClassFile gives when it throws e: no result object.
ThrownResult(e) ==
    [err |-> e, className |-> <<>>, majorVersion |-> 0, minorVersion |-> 0, methods |-> <<>>]

\* Steps 4 to 7 of parseClassFile, with the constant pool parsed.
AfterPool(view, constantPool, offset, minorVersion, majorVersion) ==
    LET accessFlags == getUint16(view, offset)
        thisClassIndex == getUint16(view, AddN(offset, 2))
        superClassIndex == getUint16(view, AddN(offset, 4))
        className == resolveClassName(constantPool, thisClassIndex.v)
        interfacesCount == getUint16(view, AddN(offset, 6))
        afterInterfaces == AddN(AddN(offset, 8), interfacesCount.v * 2)
    IN  IF accessFlags.err # NoError THEN ThrownResult(accessFlags.err)
        ELSE IF thisClassIndex.err # NoError THEN ThrownResult(thisClassIndex.err)
        ELSE IF superClassIndex.err # NoError THEN ThrownResult(superClassIndex.err)
        ELSE IF className.err # NoError THEN ThrownResult(className.err)
        ELSE IF interfacesCount.err # NoError THEN ThrownResult(interfacesCount.err)
        ELSE Bind(skipFields(view, afterInterfaces, constantPool), LAMBDA fields :
               IF fields.err # NoError THEN ThrownResult(fields.err)
               ELSE Bind(parseMethods(view, fields.offset, constantPool), LAMBDA methods :
                      IF methods.err # NoError THEN ThrownResult(methods.err)
                      ELSE [err |-> NoError, className |-> className.v,
                            majorVersion |-> majorVersion, minorVersion |-> minorVersion,
                            methods |-> methods.methods]))

parseClassFile(buffer) ==
    LET view == buffer
        magic == getUint32(view, W(0))
        minorVersion == getUint16(view, W(4))
        majorVersion == getUint16(view, W(6))
    IN  IF magic.err # NoError THEN ThrownResult(magic.err)
        ELSE IF magic.v # MAGIC THEN ThrownResult(BadMagicError(magic.v))
        ELSE IF minorVersion.err # NoError THEN ThrownResult(minorVersion.err)
        ELSE IF majorVersion.err # NoError THEN ThrownResult(majorVersion.err)
        ELSE Bind(parseConstantPool(view, W(8)), LAMBDA pool :
               IF pool.err # NoError THEN ThrownResult(pool.err)
               ELSE AfterPool(view, pool.constantPool, pool.newOffset,
                              minorVersion.v, majorVersion.v))

----------------------------------------------------------------------------
(* The reference decoder of test/extract-expected.js *)

\* The TypeError of reading the property value of null or of undefined.
TypeError(kind) ==
    [name |-> "TypeError",
     message |-> <<"Cannot read properties of ", kind, " (reading 'value')">>]

\* The value of a property an object does not have.
UndefinedValue == <<-1>>

\* An entry object { tag } of the reference decoder with the properties
\* its case assigns.
ExpectedEntry(tag, value, nameIndex, descriptorIndex) ==
    [kind |-> "entry", tag |-> tag, value |-> value,
     nameIndex |-> nameIndex, descriptorIndex |-> descriptorIndex]

\* The payload width of the tags whose case only advances the offset.
ExpectedSkipWidth(tag) ==
    CASE tag \in {3, 4} -> 4
      [] tag \in {5, 6} -> 8
      [] tag = 8 -> 2
      [] tag \in {9, 10, 11} -> 4
      [] tag = 15 -> 3
      [] tag = 16 -> 2
      [] tag \in {17, 18} -> 4
      [] tag \in {19, 20} -> 2

\* One iteration of the while loop of the reference parseConstantPool.
ExpectedConstantEntry(view, offset, index) ==
    LET t == getUint8(view, offset)
        tag == t.v
        o1 == AddN(offset, 1)
        Thrown(e) == [err |-> e, slots |-> <<>>, offset |-> offset, index |-> index]
        One(entry, o) == [err |-> NoError, slots |-> <<entry>>, offset |-> o, index |-> index + 1]
    IN  IF t.err # NoError THEN Thrown(t.err)
        ELSE IF tag = 1
        THEN LET length == getUint16(view, o1)
                 o3 == AddN(o1, 2)
                 bytes == Uint8ArrayOf(view, o3, length.v)
             IN  IF length.err # NoError THEN Thrown(length.err)
                 ELSE IF bytes.err # NoError THEN Thrown(bytes.err)
                 ELSE One(ExpectedEntry(tag, TextDecode(bytes.v), 0, 0), AddN(o3, length.v))
        ELSE IF tag \in {5, 6}
        THEN [err |-> NoError,
              slots |-> <<ExpectedEntry(tag, UndefinedValue, 0, 0), Null>>,
              offset |-> AddN(o1, ExpectedSkipWidth(tag)), index |-> index + 2]
        ELSE IF tag = 7
        THEN LET nameIndex == getUint16(view, o1)
             IN  IF nameIndex.err # NoError THEN Thrown(nameIndex.err)
                 ELSE One(ExpectedEntry(tag, UndefinedValue, nameIndex.v, 0), AddN(o1, 2))
        ELSE IF tag = 12
        THEN LET nameIndex == getUint16(view, o1)
                 descriptorIndex == getUint16(view, AddN(o1, 2))
             IN  IF nameIndex.err # NoError THEN Thrown(nameIndex.err)
                 ELSE IF descriptorIndex.err # NoError THEN Thrown(descriptorIndex.err)
                 ELSE One(ExpectedEntry(tag, UndefinedValue, nameIndex.v, descriptorIndex.v),
                          AddN(o1, 4))
        ELSE IF tag \in {3, 4, 8, 9, 10, 11, 15, 16, 17, 18, 19, 20}
        THEN One(ExpectedEntry(tag, UndefinedValue, 0, 0), AddN(o1, ExpectedSkipWidth(tag)))
        ELSE Thrown(Error(<<"Unknown tag: ">> \o Dec(tag)))

RECURSIVE ExpectedPoolLoop(_, _, _, _, _)
\* while (index < count) { ... }
ExpectedPoolLoop(view, offset, index, count, pool) ==
    IF ~(index < count)
    THEN [err |-> NoError, constantPool |-> pool, newOffset |-> offset]
    ELSE Bind(ExpectedConstantEntry(view, offset, index), LAMBDA r :
           IF r.err # NoError
           THEN [err |-> r.err, constantPool |-> pool, newOffset |-> r.offset]
           ELSE ExpectedPoolLoop(view, r.offset, r.index, count, pool \o r.slots))

ExpectedParseConstantPool(view, offset) ==
    LET count == getUint16(view, offset) IN
    IF count.err # NoError
    THEN [err |-> count.err, constantPool |-> <<>>, newOffset |-> offset]
    ELSE ExpectedPoolLoop(view, AddN(offset, 2), 1, count.v, <<Null>>)

\* One iteration of the loop of the reference skipAttributes.
ExpectedSkipAttribute(view, offset) ==
    LET o2 == AddN(offset, 2)
        length == getUint32(view, o2)
    IN  IF length.err # NoError
        THEN [err |-> length.err, offset |-> o2]
        ELSE [err |-> NoError, offset |-> Add(AddN(o2, 4), length.v)]

RECURSIVE ExpectedSkipAttributesLoop(_, _, _, _)
ExpectedSkipAttributesLoop(view, offset, i, count) ==
    IF ~(i < count) THEN [err |-> NoError, offset |-> offset]
    ELSE Bind(ExpectedSkipAttribute(view, offset), LAMBDA r :
           IF r.err # NoError THEN r
           ELSE ExpectedSkipAttributesLoop(view, r.offset, i + 1, count))

ExpectedSkipAttributes(view, offset) ==
    LET count == getUint16(view, offset) IN
    IF count.err # NoError THEN [err |-> count.err, offset |-> offset]
    ELSE ExpectedSkipAttributesLoop(view, AddN(offset, 2), 0, count.v)

RECURSIVE ExpectedSkipFieldsLoop(_, _, _, _)
ExpectedSkipFieldsLoop(view, offset, i, count) ==
    IF ~(i < count) THEN [err |-> NoError, offset |-> offset]
    ELSE Bind(ExpectedSkipAttributes(view, AddN(offset, 6)), LAMBDA r :
           IF r.err # NoError THEN r
           ELSE ExpectedSkipFieldsLoop(view, r.offset, i + 1, count))

ExpectedSkipFields(view, offset) ==
    LET count == getUint16(view, offset) IN
    IF count.err # NoError THEN [err |-> count.err, offset |-> offset]
    ELSE ExpectedSkipFieldsLoop(view, AddN(offset, 2), 0, count.v)

\* constantPool[index].value
ExpectedValue(constantPool, index) ==
    LET entry == Slot(constantPool, index) IN
    IF entry.kind # "entry" THEN [err |-> TypeError(entry.kind), v |-> UndefinedValue]
    ELSE [err |-> NoError, v |-> entry.value]

\* One iteration of the attribute loop of the reference parseMethods.
ExpectedMethodAttribute(view, offset, constantPool, codeLength) ==
    LET attrNameIndex == getUint16(view, offset)
        o2 == AddN(offset, 2)
        attrLength == getUint32(view, o2)
        o6 == AddN(o2, 4)
        attrName == ExpectedValue(constantPool, attrNameIndex.v)
        length == getUint32(view, AddN(o6, 4))
        Thrown(e) == [err |-> e, offset |-> offset, codeLength |-> codeLength]
    IN  IF attrNameIndex.err # NoError THEN Thrown(attrNameIndex.err)
        ELSE IF attrLength.err # NoError THEN Thrown(attrLength.err)
        ELSE IF attrName.err # NoError THEN Thrown(attrName.err)
        ELSE IF attrName.v = CodeName
        THEN IF length.err # NoError THEN Thrown(length.err)
             ELSE [err |-> NoError, offset |-> Add(o6, attrLength.v), codeLength |-> length.v]
        ELSE [err |-> NoError, offset |-> Add(o6, attrLength.v), codeLength |-> codeLength]

RECURSIVE ExpectedMethodAttributesLoop(_, _, _, _, _, _)
\* for (let j = 0; j < attributesCount; j++) { ... }
ExpectedMethodAttributesLoop(view, offset, constantPool, j, attributesCount, codeLength) ==
    IF ~(j < attributesCount)
    THEN [err |-> NoError, codeLength |-> codeLength, offset |-> offset]
    ELSE Bind(ExpectedMethodAttribute(view, offset, constantPool, codeLength), LAMBDA r :
           IF r.err # NoError THEN r
           ELSE ExpectedMethodAttributesLoop(view, r.offset, constantPool, j + 1,
                                             attributesCount, r.codeLength))

\* One iteration of the method loop of the reference parseMethods.
ExpectedMethodInfo(view, offset, constantPool) ==
    LET nameIndex == getUint16(view, AddN(offset, 2))
        descriptorIndex == getUint16(view, AddN(offset, 4))
        name == ExpectedValue(constantPool, nameIndex.v)
        descriptor == ExpectedValue(constantPool, descriptorIndex.v)
        attributesCount == getUint16(view, AddN(offset, 6))
        Thrown(e) == [err |-> e, offset |-> offset,
                      method |-> [name |-> <<>>, descriptor |-> <<>>, codeLength |-> Zero]]
    IN  IF nameIndex.err # NoError THEN Thrown(nameIndex.err)
        ELSE IF descriptorIndex.err # NoError THEN Thrown(descriptorIndex.err)
        ELSE IF name.err # NoError THEN Thrown(name.err)
        ELSE IF descriptor.err # NoError THEN Thrown(descriptor.err)
        ELSE IF attributesCount.err # NoError THEN Thrown(attributesCount.err)
        ELSE Bind(ExpectedMethodAttributesLoop(view, AddN(offset, 8), constantPool, 0,
                                               attributesCount.v, Zero), LAMBDA attrs :
               IF attrs.err # NoError THEN Thrown(attrs.err)
               ELSE [err |-> NoError, offset |-> attrs.offset,
                     method |-> [name |-> name.v, descriptor |-> descriptor.v,
                                 codeLength |-> attrs.codeLength]])

RECURSIVE ExpectedMethodsLoop(_, _, _, _, _, _)
\* for (let i = 0; i < count; i++) { ... }
ExpectedMethodsLoop(view, offset, constantPool, i, count, methods) ==
    IF ~(i < count) THEN [err |-> NoError, methods |-> methods]
    ELSE Bind(ExpectedMethodInfo(view, offset, constantPool), LAMBDA r :
           IF r.err # NoError THEN [err |-> r.err, methods |-> <<>>]
           ELSE ExpectedMethodsLoop(view, r.offset, constantPool, i + 1, count,
                                    Append(methods, r.method)))

ExpectedParseMethods(view, offset, constantPool) ==
    LET count == getUint16(view, offset) IN
    IF count.err # NoError THEN [err |-> count.err, methods |-> <<>>]
    ELSE ExpectedMethodsLoop(view, AddN(offset, 2), constantPool, 0, count.v, <<>>)

\* parseClassFile of the reference decoder: { methods }, or the error thrown.
ExpectedParseClassFile(buffer) ==
    LET view == buffer
        magic == getUint32(view, W(0))
        Thrown(e) == [err |-> e, methods |-> <<>>]
    IN  IF magic.err # NoError THEN Thrown(magic.err)
        ELSE IF magic.v # MAGIC THEN Thrown(Error(<<"Invalid class file">>))
        ELSE Bind(ExpectedParseConstantPool(view, W(8)), LAMBDA pool :
               IF pool.err # NoError THEN Thrown(pool.err)
               ELSE LET interfacesCount == getUint16(view, AddN(pool.newOffset, 6))
                        afterInterfaces == AddN(AddN(pool.newOffset, 8), interfacesCount.v * 2)
                    IN  IF interfacesCount.err # NoError THEN Thrown(interfacesCount.err)
                        ELSE Bind(ExpectedSkipFields(view, afterInterfaces), LAMBDA fields :
                               IF fields.err # NoError THEN Thrown(fields.err)
                               ELSE ExpectedParseMethods(view, fields.offset, pool.constantPool)))

----------------------------------------------------------------------------
(* State of one parseJar run *)

VARIABLES
    archive,            \* what JSZip makes of jarBuffer: [valid, entries]
    onProgress,         \* whether options.onProgress was given
    pc,                 \* the await the run is suspended at, or how it ended
    classFiles,         \* const classFiles
    allMethods,         \* const allMethods
    warnings,           \* const warnings
    processedClasses,   \* let processedClasses
    progressCalls,      \* the calls made to onProgress, in order
    outcome             \* the object returned, or the exception thrown

jarVars == <<archive, onProgress, pc, classFiles, allMethods, warnings, processedClasses,
             progressCalls, outcome>>

----------------------------------------------------------------------------
(* The decode of one buffer, step by step: the statements of parseClassFile  *)
(* in order, one constant pool entry and one method at a time.               *)

VARIABLES
    buffer,             \* the bytes handed to parseClassFile
    phase,              \* where the decode stands
    offset,             \* let offset
    constantPool,       \* const constantPool (the array being filled)
    constantPoolCount,  \* const constantPoolCount
    index,              \* let index of parseConstantPool
    className,          \* const className
    majorVersion,
    minorVersion,
    methods,            \* const methods of parseMethods
    methodsCount,
    methodIndex,        \* let i of parseMethods
    thrown              \* the exception that ended the decode, or NoError

decodeVars == <<buffer, phase, offset, constantPool, constantPoolCount, index, className,
                majorVersion, minorVersion, methods, methodsCount, methodIndex, thrown>>

\* One getTopMethods call: its arguments, where it stands, and the array it
\* returned.
VARIABLES
    topMethods,
    topN,
    topPc,
    topReturned

topVars == <<topMethods, topN, topPc, topReturned>>

TopAt(list, n, at) ==
    /\ topMethods = list
    /\ topN = n
    /\ topPc = at
    /\ topReturned = <<>>

\* getTopMethods is entered with the given arguments.
TopStart(list, n) == TopAt(list, n, "call")

\* No call is being followed.
TopIdle == TopAt(<<>>, 0, "idle")

\* Two parseJar runs in progress at once: for each run its arguments, the
\* await it is suspended at, its classFiles, processedClasses, the calls
\* its progress sink received and its outcome; and the allMethods and
\* warnings arrays in use.
VARIABLES
    runs,
    aggregation

pairVars == <<runs, aggregation>>

\* No pair of runs is being followed.
PairIdle ==
    /\ runs = <<>>
    /\ aggregation = <<>>

Phases == {"ExpectMagic", "ExpectVersion", "ExpectPool", "PoolLoop", "ExpectHeaderAndClassName",
           "ExpectInterfaces", "ExpectFields", "ExpectMethods", "MethodLoop", "Done", "Failed",
           "Idle"}

\* The decode variables with the given buffer and phase, nothing read yet.
DecodeAt(b, ph) ==
    /\ buffer = b
    /\ phase = ph
    /\ offset = W(0)
    /\ constantPool = <<>>
    /\ constantPoolCount = 0
    /\ index = 0
    /\ className = <<>>
    /\ majorVersion = 0
    /\ minorVersion = 0
    /\ methods = <<>>
    /\ methodsCount = 0
    /\ methodIndex = 0
    /\ thrown = NoError

\* parseClassFile is entered with the given buffer.
DecodeStart(b) == DecodeAt(b, "ExpectMagic")

\* No decode is being followed.
DecodeIdle == DecodeAt(<<>>, "Idle")

\* The error recorded and the decode carried on to its end as if complete.
ThrowAndReturn(e) ==
    /\ phase' = "Done"
    /\ thrown' = e
    /\ UNCHANGED <<buffer, offset, constantPool, constantPoolCount, index, className,
                   majorVersion, minorVersion, methods, methodsCount, methodIndex>>

\* throw e: the decode ends, nothing else changes.
Throw(e) ==
    /\ phase' = "Failed"
    /\ thrown' = e
    /\ UNCHANGED <<buffer, offset, constantPool, constantPoolCount, index, className,
                   majorVersion, minorVersion, methods, methodsCount, methodIndex>>

\* 1. Verify magic number
VerifyMagic ==
    /\ UNCHANGED jarVars
    /\ UNCHANGED topVars
    /\ UNCHANGED pairVars
    /\ phase = "ExpectMagic"
    /\ LET magic == getUint32(buffer, offset) IN
       IF magic.err # NoError THEN Throw(magic.err)
       ELSE /\ offset' = AddN(offset, 4)
            /\ IF magic.v # MAGIC
               THEN /\ phase' = "Failed"
                    /\ thrown' = BadMagicError(magic.v)
               ELSE /\ phase' = "ExpectVersion"
                    /\ UNCHANGED thrown
            /\ UNCHANGED <<buffer, constantPool, constantPoolCount, index, className,
                           majorVersion, minorVersion, methods, methodsCount, methodIndex>>

\* 2. Read version info
ReadVersion ==
    /\ UNCHANGED jarVars
    /\ UNCHANGED topVars
    /\ UNCHANGED pairVars
    /\ phase = "ExpectVersion"
    /\ LET minor == getUint16(buffer, offset)
           major == getUint16(buffer, AddN(offset, 2))
       IN  IF minor.err # NoError THEN Throw(minor.err)
           ELSE IF major.err # NoError
           THEN /\ phase' = "Failed"
                /\ thrown' = major.err
                /\ offset' = AddN(offset, 2)
                /\ minorVersion' = minor.v
                /\ UNCHANGED <<buffer, constantPool, constantPoolCount, index, className,
                               majorVersion, methods, methodsCount, methodIndex>>
           ELSE /\ phase' = "ExpectPool"
                /\ offset' = AddN(offset, 4)
                /\ minorVersion' = minor.v
                /\ majorVersion' = major.v
                /\ UNCHANGED <<buffer, constantPool, constantPoolCount, index, className,
                               methods, methodsCount, methodIndex, thrown>>

\* 3. Read constant pool: the count, and the empty table [null]
ReadPoolCount ==
    /\ UNCHANGED jarVars
    /\ UNCHANGED topVars
    /\ UNCHANGED pairVars
    /\ phase = "ExpectPool"
    /\ LET count == getUint16(buffer, offset) IN
       IF count.err # NoError THEN Throw(count.err)
       ELSE /\ constantPoolCount' = count.v
            /\ offset' = AddN(offset, 2)
            /\ constantPool' = <<Null>>
            /\ index' = 1
            /\ phase' = IF 1 < count.v THEN "PoolLoop" ELSE "ExpectHeaderAndClassName"
            /\ UNCHANGED <<buffer, className, majorVersion, minorVersion, methods,
                           methodsCount, methodIndex, thrown>>

\* One iteration of while (index < constantPoolCount)
ReadPoolEntry ==
    /\ UNCHANGED jarVars
    /\ UNCHANGED topVars
    /\ UNCHANGED pairVars
    /\ phase = "PoolLoop"
    /\ index < constantPoolCount
    /\ \E r \in {ConstantEntry(buffer, offset, index)} :
       IF r.err # NoError
       THEN /\ phase' = "Failed"
            /\ thrown' = r.err
            /\ offset' = r.offset
            /\ UNCHANGED <<buffer, constantPool, constantPoolCount, index, className,
                           majorVersion, minorVersion, methods, methodsCount, methodIndex>>
       ELSE /\ offset' = r.offset
            /\ constantPool' = constantPool \o r.slots
            /\ index' = r.index
            /\ phase' = IF r.index < constantPoolCount THEN "PoolLoop"
                        ELSE "ExpectHeaderAndClassName"
            /\ UNCHANGED <<buffer, constantPoolCount, className, majorVersion, minorVersion,
                           methods, methodsCount, methodIndex, thrown>>

\* 4. Read access flags, this_class, super_class; resolve class name
ReadHeader ==
    /\ UNCHANGED jarVars
    /\ UNCHANGED topVars
    /\ UNCHANGED pairVars
    /\ phase = "ExpectHeaderAndClassName"
    /\ LET accessFlags == getUint16(buffer, offset)
           thisClassIndex == getUint16(buffer, AddN(offset, 2))
           superClassIndex == getUint16(buffer, AddN(offset, 4))
           name == resolveClassName(constantPool, thisClassIndex.v)
           ThrowAt(e, o) ==
               /\ phase' = "Failed"
               /\ thrown' = e
               /\ offset' = o
               /\ UNCHANGED <<buffer, constantPool, constantPoolCount, index, className,
                              majorVersion, minorVersion, methods, methodsCount, methodIndex>>
       IN  IF accessFlags.err # NoError THEN ThrowAt(accessFlags.err, offset)
           ELSE IF thisClassIndex.err # NoError THEN ThrowAt(thisClassIndex.err, AddN(offset, 2))
           ELSE IF superClassIndex.err # NoError THEN ThrowAt(superClassIndex.err, AddN(offset, 4))
           ELSE IF name.err # NoError THEN ThrowAt(name.err, AddN(offset, 6))
           ELSE /\ phase' = "ExpectInterfaces"
                /\ offset' = AddN(offset, 6)
                /\ className' = name.v
                /\ UNCHANGED <<buffer, constantPool, constantPoolCount, index, majorVersion,
                               minorVersion, methods, methodsCount, methodIndex, thrown>>

\* 5. Skip interfaces
SkipInterfaces ==
    /\ UNCHANGED jarVars
    /\ UNCHANGED topVars
    /\ UNCHANGED pairVars
    /\ phase = "ExpectInterfaces"
    /\ LET interfacesCount == getUint16(buffer, offset) IN
       IF interfacesCount.err # NoError THEN Throw(interfacesCount.err)
       ELSE /\ phase' = "ExpectFields"
            /\ offset' = AddN(AddN(offset, 2), interfacesCount.v * 2)
            /\ UNCHANGED <<buffer, constantPool, constantPoolCount, index, className,
                           majorVersion, minorVersion, methods, methodsCount, methodIndex,
                           thrown>>

\* 6. Skip fields
SkipFields ==
    /\ UNCHANGED jarVars
    /\ UNCHANGED topVars
    /\ UNCHANGED pairVars
    /\ phase = "ExpectFields"
    /\ \E r \in {skipFields(buffer, offset, constantPool)} :
       IF r.err # NoError THEN Throw(r.err)
       ELSE /\ phase' = "ExpectMethods"
            /\ offset' = r.offset
            /\ UNCHANGED <<buffer, constantPool, constantPoolCount, index, className,
                           majorVersion, minorVersion, methods, methodsCount, methodIndex,
                           thrown>>

\* 7. Parse methods: the count
ReadMethodsCount ==
    /\ UNCHANGED jarVars
    /\ UNCHANGED topVars
    /\ UNCHANGED pairVars
    /\ phase = "ExpectMethods"
    /\ LET count == getUint16(buffer, offset) IN
       IF count.err # NoError THEN Throw(count.err)
       ELSE /\ methodsCount' = count.v
            /\ offset' = AddN(offset, 2)
            /\ methods' = <<>>
            /\ methodIndex' = 0
            /\ phase' = IF 0 < count.v THEN "MethodLoop" ELSE "Done"
            /\ UNCHANGED <<buffer, constantPool, constantPoolCount, index, className,
                           majorVersion, minorVersion, thrown>>

\* One iteration of for (let i = 0; i < methodsCount; i++)
ReadMethod ==
    /\ UNCHANGED jarVars
    /\ UNCHANGED topVars
    /\ UNCHANGED pairVars
    /\ phase = "MethodLoop"
    /\ methodIndex < methodsCount
    /\ \E r \in {MethodInfo(buffer, offset, constantPool)} :
       IF r.err # NoError
       THEN /\ phase' = "Failed"
            /\ thrown' = r.err
            /\ offset' = r.offset
            /\ UNCHANGED <<buffer, constantPool, constantPoolCount, index, className,
                           majorVersion, minorVersion, methods, methodsCount, methodIndex>>
       ELSE /\ offset' = r.offset
            /\ methods' = PushMethod(methods, r.method)
            /\ methodIndex' = methodIndex + 1
            /\ phase' = IF methodIndex + 1 < methodsCount THEN "MethodLoop" ELSE "Done"
            /\ UNCHANGED <<buffer, constantPool, constantPoolCount, index, className,
                           majorVersion, minorVersion, methodsCount, thrown>>

\* The value parseClassFile returned or the exception it threw, once the
\* decode has ended.
DecodeOutcome ==
    IF phase = "Done"
    THEN [err |-> NoError, className |-> className, majorVersion |-> majorVersion,
          minorVersion |-> minorVersion, methods |-> methods]
    ELSE ThrownResult(thrown)

DecodeNext ==
    \/ VerifyMagic
    \/ ReadVersion
    \/ ReadPoolCount
    \/ ReadPoolEntry
    \/ ReadHeader
    \/ SkipInterfaces
    \/ SkipFields
    \/ ReadMethodsCount
    \/ ReadMethod

----------------------------------------------------------------------------
(* Class files to decode: byte layouts of JVMS 4, written out field by field *)

U2(n) == <<n \div 256, n % 256>>
U4(w) == U2(w[1]) \o U2(w[2])

RECURSIVE Flatten(_)
Flatten(seqs) == IF seqs = <<>> THEN <<>> ELSE Head(seqs) \o Flatten(Tail(seqs))

Utf8Info(bytes) == <<1>> \o U2(Len(bytes)) \o bytes
IntegerInfo == <<3, 0, 0, 0, 1>>
LongInfo == <<5, 0, 0, 0, 0, 0, 0, 0, 1>>
ClassInfo(nameIndex) == <<7>> \o U2(nameIndex)

AttributeInfo(nameIndex, length, info) == U2(nameIndex) \o U4(length) \o info

\* A Code attribute: max_stack, max_locals, code_length, code.
CodeAttribute(nameIndex, codeLength, code) ==
    AttributeInfo(nameIndex, W(8 + Len(code)), U2(1) \o U2(1) \o U4(codeLength) \o code)

MemberInfo(nameIndex, descriptorIndex, attributes) ==
    U2(1) \o U2(nameIndex) \o U2(descriptorIndex) \o U2(Len(attributes)) \o Flatten(attributes)

ClassFile(poolCount, pool, thisClass, interfaces, fields, classMethods) ==
    U4(MAGIC) \o U2(0) \o U2(52) \o U2(poolCount) \o Flatten(pool)
    \o U2(33) \o U2(thisClass) \o U2(0)
    \o U2(Len(interfaces)) \o Flatten([i \in 1..Len(interfaces) |-> U2(interfaces[i])])
    \o U2(Len(fields)) \o Flatten(fields)
    \o U2(Len(classMethods)) \o Flatten(classMethods)

\* The most methods a generated class declares.
MaxMethods == 2

\* Slots: 1 "a/B", 2 Class -> 1, 3 "Code", 4 Long (5 its placeholder),
\* 6 "m", 7 "()V", 8 Integer.
SamplePool ==
    <<Utf8Info(<<97, 47, 66>>), ClassInfo(1), Utf8Info(CodeName), LongInfo,
      Utf8Info(<<109>>), Utf8Info(<<40, 41, 86>>), IntegerInfo>>

\* The j-th method: with a Code attribute and one more attribute when j is
\* odd, without attributes (abstract, native) when j is even.
SampleMethod(j) ==
    IF j % 2 = 1
    THEN MemberInfo(6, 7, <<CodeAttribute(3, W(j), <<177>>), AttributeInfo(6, W(2), <<0, 9>>)>>)
    ELSE MemberInfo(6, 7, <<>>)

\* A well-formed class with one interface, one field and k methods.
SampleClass(k) ==
    ClassFile(9, SamplePool, 2, <<2>>,
              <<MemberInfo(6, 7, <<AttributeInfo(6, W(1), <<0>>)>>)>>,
              [j \in 1..k |-> SampleMethod(j)])

\* Constant pool entries of the other tags: one index, two indices, a
\* method handle, a float, a double.
IndexInfo(tag, ref) == <<tag>> \o U2(ref)
RefInfo(tag, first, second) == <<tag>> \o U2(first) \o U2(second)
MethodHandleInfo(kind, ref) == <<15, kind>> \o U2(ref)
FloatInfo == <<4, 63, 128, 0, 0>>
DoubleInfo == <<6, 63, 240, 0, 0, 0, 0, 0, 0>>

\* Slots: 1 "W", 2 Class -> 1, 3 "Code", 4 "run", 5 "()V", 6 String,
\* 7 Fieldref, 8 Methodref, 9 InterfaceMethodref, 10 NameAndType,
\* 11 MethodHandle, 12 MethodType, 13 Dynamic, 14 InvokeDynamic, 15 Module,
\* 16 Package, 17 Float, 18 Double (19 its placeholder), 20 "go".
WidePool ==
    <<Utf8Info(<<87>>), ClassInfo(1), Utf8Info(CodeName), Utf8Info(<<114, 117, 110>>),
      Utf8Info(<<40, 41, 86>>), IndexInfo(8, 4), RefInfo(9, 2, 10), RefInfo(10, 2, 10),
      RefInfo(11, 2, 10), RefInfo(12, 4, 5), MethodHandleInfo(6, 8), IndexInfo(16, 5),
      RefInfo(17, 0, 10), RefInfo(18, 0, 10), IndexInfo(19, 1), IndexInfo(20, 1),
      FloatInfo, DoubleInfo, Utf8Info(<<103, 111>>)>>

\* A well-formed class whose pool has an entry of every tag, with no
\* interface, no field and the methods run (3 bytes of code) and go (2 bytes).
WideClass ==
    ClassFile(21, WidePool, 2, <<>>, <<>>,
              <<MemberInfo(4, 5, <<CodeAttribute(3, W(3), <<3, 87, 177>>)>>),
                MemberInfo(20, 5, <<CodeAttribute(3, W(2), <<0, 177>>)>>)>>)

\* Buffers that end right after the this_class field: one with an empty
\* pool and this_class 0, one with the sample pool and this_class at the
\* placeholder slot 5, one with this_class at the Class slot 2.
CutAfterThisClass ==
    {U4(MAGIC) \o U2(0) \o U2(52) \o U2(1) \o U2(33) \o U2(0)}
    \cup {U4(MAGIC) \o U2(0) \o U2(52) \o U2(9) \o Flatten(SamplePool) \o U2(33) \o U2(c) :
             c \in {5, 2}}

\* The values a corrupted byte takes.
CorruptValues == {0, 1, 2, 5, 7, 255}

\* Every sample class and the class with the wide pool, every prefix of
\* one, every one with a single byte corrupted, the buffers that end after
\* this_class, and the two buffers of the magic number tests.
DecodeInputs ==
    LET samples == {SampleClass(k) : k \in 0..MaxMethods} \cup {WideClass} IN
    samples
    \cup UNION {{SubSeq(b, 1, n) : n \in 0..(Len(b) - 1)} : b \in samples}
    \cup UNION {{[b EXCEPT ![p] = v] : <<p, v>> \in (1..Len(b)) \X CorruptValues} : b \in samples}
    \cup {[i \in 1..100 |-> 255], <<0, 0, 0>>}
    \cup CutAfterThisClass

----------------------------------------------------------------------------
(* parseJar *)

\* relativePath.includes(suffix)
includes(path, suffix) ==
    \E i \in 1..Len(path) :
        /\ i + Len(suffix) - 1 <= Len(path)
        /\ SubSeq(path, i, i + Len(suffix) - 1) = suffix

\* relativePath.endsWith(suffix)
endsWith(path, suffix) ==
    /\ Len(path) >= Len(suffix)
    /\ SubSeq(path, Len(path) - Len(suffix) + 1, Len(path)) = suffix

DotClass == <<".", "c", "l", "a", "s", "s">>

\* zip.forEach(...): the entries kept in classFiles, in enumeration order.
FindClassFiles(entries) ==
    SelectSeq(entries, LAMBDA e : endsWith(e.path, DotClass) /\ ~e.dir)

\* result.className.replace('/', '.'): only the first slash replaced.
ReplaceFirstSlash(name) ==
    [i \in 1..Len(name) |->
        IF name[i] = 47 /\ \A j \in 1..(i - 1) : name[j] # 47 THEN 46 ELSE name[i]]

\* result.className.replace(/\//g, '.')
ReplaceSlashes(name) == [i \in 1..Len(name) |-> IF name[i] = 47 THEN 46 ELSE name[i]]

\* The warning without the path of the entry.
FailedToParseWithoutPath(path, e) == <<"Failed to parse ">> \o <<": ">> \o e.message

\* The entries pushed on allMethods for one decoded class.
AggregatedEntries(result) ==
    [i \in 1..Len(result.methods) |->
        [className |-> ReplaceSlashes(result.className),
         methodName |-> result.methods[i].name,
         descriptor |-> result.methods[i].descriptor,
         bytecodeSize |-> result.methods[i].bytecodeSize]]

FailedToParse(path, e) == <<"Failed to parse ">> \o path \o <<": ">> \o e.message

\* a - b truncated to a signed 32-bit integer, by its sign.
SignOfInt32Difference(a, b) ==
    LET lo == (a[2] - b[2]) % Base
        borrow == IF a[2] < b[2] THEN 1 ELSE 0
        hi == (a[1] - b[1] - borrow) % Base
    IN  IF hi >= Base \div 2 THEN -1 ELSE IF hi = 0 /\ lo = 0 THEN 0 ELSE 1

\* The comparator computed in 32-bit integer arithmetic.
compareBySizeInt32(a, b) == SignOfInt32Difference(b.bytecodeSize, a.bytecodeSize)

RECURSIVE CompareText(_, _)
\* The order of two strings by code points: -1, 0 or 1.
CompareText(s, t) ==
    IF s = <<>> THEN (IF t = <<>> THEN 0 ELSE -1)
    ELSE IF t = <<>> THEN 1
    ELSE IF s[1] < t[1] THEN -1
    ELSE IF s[1] > t[1] THEN 1
    ELSE CompareText(Tail(s), Tail(t))

\* The comparator with the class name and then the method name as keys
\* for records of equal size.
compareBySizeThenName(a, b) ==
    LET bySize == SignOfDifference(b.bytecodeSize, a.bytecodeSize)
        byClass == CompareText(a.className, b.className)
    IN  IF bySize # 0 THEN bySize
        ELSE IF byClass # 0 THEN byClass
        ELSE CompareText(a.methodName, b.methodName)

\* (a, b) => b.bytecodeSize - a.bytecodeSize, by its sign.
compareBySize(a, b) == SignOfDifference(b.bytecodeSize, a.bytecodeSize)

\* x left out when an element of the sorted sequence compares equal to it.
InsertUnlessTied(sorted, x) ==
    LET stops == {k \in 1..Len(sorted) : compareBySize(sorted[k], x) <= 0}
        at == IF stops = {} THEN 0 ELSE CHOOSE k \in stops : \A j \in stops : j <= k
    IN  IF \E k \in 1..Len(sorted) : compareBySize(sorted[k], x) = 0 THEN sorted
        ELSE SubSeq(sorted, 1, at) \o <<x>> \o SubSeq(sorted, at + 1, Len(sorted))

\* x put into a sorted sequence: moved towards the front past every
\* element that compares greater than it, up to the first that does not.
InsertSorted(sorted, x) ==
    LET stops == {k \in 1..Len(sorted) : compareBySize(sorted[k], x) <= 0}
        at == IF stops = {} THEN 0 ELSE CHOOSE k \in stops : \A j \in stops : j <= k
    IN  SubSeq(sorted, 1, at) \o <<x>> \o SubSeq(sorted, at + 1, Len(sorted))

RECURSIVE SortMethods(_)
\* allMethods.sort(compare): Array.prototype.sort is stable.
SortMethods(list) ==
    IF list = <<>> THEN <<>>
    ELSE Bind(SortMethods(SubSeq(list, 1, Len(list) - 1)), LAMBDA sorted :
           InsertSorted(sorted, list[Len(list)]))

\* onProgress called before processedClasses++ instead of after it.
NotifyBeforeIncrement(calls, processed, total) == Append(calls, <<processed - 1, total>>)

\* onProgress(processedClasses, classFiles.length)
NotifyProgress(calls, processed, total) == Append(calls, <<processed, total>>)

\* stats.classesScanned counting only the classes that parsed.
ReturnedCountingParsed(methodList, classesScanned, warningList) ==
    [err |-> NoError, methods |-> methodList,
     stats |-> [classesScanned |-> classesScanned - Len(warningList),
                methodsFound |-> Len(methodList)],
     warnings |-> warningList]

\* The object parseJar returns; parseTimeMs, a wall-clock reading, is left out.
Returned(methodList, classesScanned, warningList) ==
    [err |-> NoError, methods |-> methodList,
     stats |-> [classesScanned |-> classesScanned, methodsFound |-> Len(methodList)],
     warnings |-> warningList]

NotReturned == [err |-> NoError, methods |-> <<>>,
                stats |-> [classesScanned |-> -1, methodsFound |-> -1], warnings |-> <<>>]

\* The failure to open the archive turned into an empty result with a warning.
ResolvedWithWarning(e) == Returned(<<>>, 0, <<e.message>>)

\* throw e out of parseJar: the promise rejects, nothing is returned.
Rejected(e) == [err |-> e, methods |-> <<>>,
                stats |-> [classesScanned |-> -1, methodsFound |-> -1], warnings |-> <<>>]

\* The error the promise of entry.async is rejected with when the data of
\* the entry cannot be read.
CrcMismatch == Error(<<"Corrupted zip : CRC32 mismatch">>)

\* const classBuffer = await entry.async('arraybuffer');
\* const result = parseClassFile(classBuffer): the result, or what was
\* thrown into the catch, by the rejected promise or by parseClassFile.
ReadAndParse(file) ==
    IF file.rejection # NoError THEN ThrownResult(file.rejection)
    ELSE parseClassFile(file.bytes)

\* A failed entry leaving a record without method in the list.
PushedWithPlaceholder(methodList, result) ==
    IF result.err = NoError THEN methodList \o AggregatedEntries(result)
    ELSE Append(methodList, [className |-> <<>>, methodName |-> <<>>, descriptor |-> <<>>,
                             bytecodeSize |-> Zero])

\* A failed entry emptying the list of the records pushed before it.
PushedClearingOnFailure(methodList, result) ==
    IF result.err = NoError THEN methodList \o AggregatedEntries(result) ELSE <<>>

\* try { result = parseClassFile(buffer); for (const method of
\* result.methods) allMethods.push(...) } catch (e) { ... }: the list after it.
Pushed(methodList, result) ==
    IF result.err = NoError THEN methodList \o AggregatedEntries(result) ELSE methodList

\* The early return with no warning at all.
NoClassFilesWithoutWarning == Returned(<<>>, 0, <<>>)

\* if (classFiles.length === 0) return { methods: [], stats: { ... }, warnings: [...] }
NoClassFiles == Returned(<<>>, 0, << <<"No .class files found in JAR">> >>)

\* await JSZip.loadAsync(jarBuffer) throws: the run rejects.
ZipRejected ==
    /\ pc = "loadAsync"
    /\ ~archive.valid
    /\ pc' = "rejected"
    /\ outcome' = Rejected(Error(<<"Invalid JAR file: not a valid ZIP archive">>))
    /\ UNCHANGED <<archive, onProgress, classFiles, allMethods, warnings, processedClasses,
                   progressCalls>>
    /\ UNCHANGED decodeVars
    /\ UNCHANGED topVars
    /\ UNCHANGED pairVars

\* await JSZip.loadAsync(jarBuffer) resolves: the class files are listed, and
\* the run returns at once when there are none, or awaits the first entry.
ZipLoaded ==
    /\ pc = "loadAsync"
    /\ archive.valid
    /\ LET found == FindClassFiles(archive.entries) IN
       /\ classFiles' = found
       /\ IF Len(found) = 0
          THEN /\ pc' = "returned"
               /\ outcome' = NoClassFiles
          ELSE /\ pc' = "entryAsync"
               /\ UNCHANGED outcome
    /\ UNCHANGED <<archive, onProgress, allMethods, warnings, processedClasses, progressCalls>>
    /\ UNCHANGED decodeVars
    /\ UNCHANGED topVars
    /\ UNCHANGED pairVars

\* await entry.async('arraybuffer') resolves: the rest of the loop body for
\* that entry, then either the next await or the sort and the return.
EntryRead ==
    /\ pc = "entryAsync"
    /\ LET file == classFiles[processedClasses + 1]
           result == ReadAndParse(file)
           methodsNow == Pushed(allMethods, result)
           warningsNow == IF result.err = NoError
                          THEN warnings
                          ELSE Append(warnings, FailedToParse(file.path, result.err))
           last == processedClasses + 1 = Len(classFiles)
       IN  /\ warnings' = warningsNow
           /\ processedClasses' = processedClasses + 1
           /\ progressCalls' = IF onProgress
                               THEN NotifyProgress(progressCalls, processedClasses + 1,
                                                   Len(classFiles))
                               ELSE progressCalls
           /\ IF last
              THEN /\ allMethods' = SortMethods(methodsNow)
                   /\ pc' = "returned"
                   /\ outcome' = Returned(SortMethods(methodsNow), Len(classFiles), warningsNow)
              ELSE /\ allMethods' = methodsNow
                   /\ pc' = "entryAsync"
                   /\ UNCHANGED outcome
    /\ UNCHANGED <<archive, onProgress, classFiles>>
    /\ UNCHANGED decodeVars
    /\ UNCHANGED topVars
    /\ UNCHANGED pairVars

\* The list sorted again before it is cut.
getTopMethodsSorted(methodList, n) ==
    SubSeq(SortMethods(methodList), 1, IF n < Len(methodList) THEN n ELSE Len(methodList))

\* getTopMethods(methods, n): methods.slice(0, n) for n >= 0.
getTopMethods(methodList, n) ==
    SubSeq(methodList, 1, IF n < Len(methodList) THEN n ELSE Len(methodList))

\* The call returns the slice; the array it was given is left as it was.
GetTopMethods ==
    /\ topPc = "call"
    /\ topReturned' = getTopMethods(topMethods, topN)
    /\ topPc' = "returned"
    /\ UNCHANGED <<topMethods, topN>>
    /\ UNCHANGED jarVars
    /\ UNCHANGED decodeVars
    /\ UNCHANGED pairVars

----------------------------------------------------------------------------
(* Two parseJar runs at once *)

\* The two calls.
RunIds == {1, 2}

\* The arrays kept at module level: both calls work on the same pair.
ArraysAtModuleLevel(r) == 1

\* const allMethods = []; const warnings = []: each call creates its own.
ArraysOf(r) == r

NoAggregation == [allMethods |-> <<>>, warnings |-> <<>>]

\* A call suspended at loadAsync.
RunStart(a, p) ==
    [archive |-> a, onProgress |-> p, pc |-> "loadAsync", classFiles |-> <<>>,
     processedClasses |-> 0, progressCalls |-> <<>>, outcome |-> NotReturned]

\* Run r resumes from loadAsync, which threw.
RunZipRejected(r) ==
    /\ runs[r].pc = "loadAsync"
    /\ ~runs[r].archive.valid
    /\ runs' = [runs EXCEPT
                  ![r].pc = "rejected",
                  ![r].outcome = Rejected(Error(<<"Invalid JAR file: not a valid ZIP archive">>))]
    /\ UNCHANGED aggregation
    /\ UNCHANGED <<jarVars, decodeVars, topVars>>

\* Run r resumes from loadAsync, which resolved.
RunZipLoaded(r) ==
    /\ runs[r].pc = "loadAsync"
    /\ runs[r].archive.valid
    /\ LET found == FindClassFiles(runs[r].archive.entries) IN
       IF Len(found) = 0
       THEN /\ runs' = [runs EXCEPT ![r].classFiles = found,
                                    ![r].pc = "returned",
                                    ![r].outcome = NoClassFiles]
            /\ UNCHANGED aggregation
       ELSE /\ runs' = [runs EXCEPT ![r].classFiles = found, ![r].pc = "entryAsync"]
            /\ aggregation' = [aggregation EXCEPT ![ArraysOf(r)] = NoAggregation]
    /\ UNCHANGED <<jarVars, decodeVars, topVars>>

\* Run r resumes from entry.async, which resolved.
RunEntryRead(r) ==
    /\ runs[r].pc = "entryAsync"
    /\ LET run == runs[r]
           arrays == aggregation[ArraysOf(r)]
           file == run.classFiles[run.processedClasses + 1]
           result == ReadAndParse(file)
           methodsNow == Pushed(arrays.allMethods, result)
           warningsNow == IF result.err = NoError
                          THEN arrays.warnings
                          ELSE Append(arrays.warnings, FailedToParse(file.path, result.err))
           last == run.processedClasses + 1 = Len(run.classFiles)
           calls == IF run.onProgress
                    THEN NotifyProgress(run.progressCalls, run.processedClasses + 1,
                                        Len(run.classFiles))
                    ELSE run.progressCalls
       IN  IF last
           THEN /\ aggregation' = [aggregation EXCEPT
                                     ![ArraysOf(r)] = [allMethods |-> SortMethods(methodsNow),
                                                       warnings |-> warningsNow]]
                /\ runs' = [runs EXCEPT
                              ![r].processedClasses = @ + 1,
                              ![r].progressCalls = calls,
                              ![r].pc = "returned",
                              ![r].outcome = Returned(SortMethods(methodsNow),
                                                      Len(run.classFiles), warningsNow)]
           ELSE /\ aggregation' = [aggregation EXCEPT
                                     ![ArraysOf(r)] = [allMethods |-> methodsNow,
                                                       warnings |-> warningsNow]]
                /\ runs' = [runs EXCEPT
                              ![r].processedClasses = @ + 1,
                              ![r].progressCalls = calls]
    /\ UNCHANGED <<jarVars, decodeVars, topVars>>

----------------------------------------------------------------------------
(* Archives to analyse *)

\* A class named by the given bytes whose i-th method has a Code attribute
\* of the given code_length when sizes[i].code, and no attribute otherwise.
\* Slots: 1 the name, 2 Class -> 1, 3 "Code", 4 "m", 5 "()V".
SmallClass(nameBytes, sizes) ==
    ClassFile(6,
              <<Utf8Info(nameBytes), ClassInfo(1), Utf8Info(CodeName), Utf8Info(<<109>>),
                Utf8Info(<<40, 41, 86>>)>>,
              2, <<>>, <<>>,
              [i \in 1..Len(sizes) |->
                  IF sizes[i].code
                  THEN MemberInfo(4, 5, <<CodeAttribute(3, sizes[i].size, <<>>)>>)
                  ELSE MemberInfo(4, 5, <<>>)])

Sized(size) == [code |-> TRUE, size |-> size]
NoCode == [code |-> FALSE, size |-> Zero]

ClassAB == SmallClass(<<97, 47, 66>>, <<Sized(W(5)), Sized(<<65535, 65535>>)>>)
ClassC == SmallClass(<<67>>, <<Sized(<<32768, 0>>), NoCode>>)
ClassD == SmallClass(<<68>>, <<Sized(W(5))>>)

\* The class p/q/R with the method m(Lp/q/R;)V of 7 bytes of code.
\* Slots: 1 "p/q/R", 2 Class -> 1, 3 "Code", 4 "m", 5 "(Lp/q/R;)V".
ClassPQR ==
    ClassFile(6,
              <<Utf8Info(<<112, 47, 113, 47, 82>>), ClassInfo(1), Utf8Info(CodeName),
                Utf8Info(<<109>>), Utf8Info(<<40, 76, 112, 47, 113, 47, 82, 59, 41, 86>>)>>,
              2, <<>>, <<>>, <<MemberInfo(4, 5, <<CodeAttribute(3, W(7), <<>>)>>)>>)

\* The class T with the methods n()V and m()V, in this order, of 7 bytes of
\* code each. Slots: 1 "T", 2 Class -> 1, 3 "Code", 4 "n", 5 "()V", 6 "m".
ClassT ==
    ClassFile(7,
              <<Utf8Info(<<84>>), ClassInfo(1), Utf8Info(CodeName), Utf8Info(<<110>>),
                Utf8Info(<<40, 41, 86>>), Utf8Info(<<109>>)>>,
              2, <<>>, <<>>,
              <<MemberInfo(4, 5, <<CodeAttribute(3, W(7), <<>>)>>),
                MemberInfo(6, 5, <<CodeAttribute(3, W(7), <<>>)>>)>>)

\* The entries an archive is made of: five classes, a buffer that is no
\* class file, a class cut inside its second method, a file of another
\* kind, a file with .class inside its name, and a directory.
ArchiveEntries ==
    {[path |-> <<"a", "/", "B">> \o DotClass, dir |-> FALSE, bytes |-> ClassAB, rejection |-> NoError],
     [path |-> <<"C">> \o DotClass, dir |-> FALSE, bytes |-> ClassC, rejection |-> NoError],
     [path |-> <<"D">> \o DotClass, dir |-> FALSE, bytes |-> ClassD, rejection |-> NoError],
     [path |-> <<"p", "/", "q", "/", "R">> \o DotClass, dir |-> FALSE, bytes |-> ClassPQR, rejection |-> NoError],
     [path |-> <<"T">> \o DotClass, dir |-> FALSE, bytes |-> ClassT, rejection |-> NoError],
     [path |-> <<"b", "a", "d">> \o DotClass, dir |-> FALSE, bytes |-> <<0, 1, 2, 3>>, rejection |-> NoError],
     [path |-> <<"c", "u", "t">> \o DotClass, dir |-> FALSE,
      bytes |-> SubSeq(ClassAB, 1, Len(ClassAB) - 4), rejection |-> NoError],
     [path |-> <<"x", ".", "t", "x", "t">>, dir |-> FALSE, bytes |-> ClassD, rejection |-> NoError],
     [path |-> <<"e">> \o DotClass \o <<"e", "s">>, dir |-> FALSE, bytes |-> ClassC, rejection |-> NoError],
     [path |-> <<"d">> \o DotClass, dir |-> TRUE, bytes |-> <<>>, rejection |-> NoError],
     [path |-> <<"U">> \o DotClass, dir |-> FALSE, bytes |-> ClassC, rejection |-> CrcMismatch]}

\* The most entries an archive holds.
MaxEntries == 3

\* An archive names each of its entries once.
Archives ==
    {[valid |-> FALSE, entries |-> <<>>]}
    \cup {[valid |-> TRUE, entries |-> es] :
            es \in {s \in UNION {[1..n -> ArchiveEntries] : n \in 0..MaxEntries} :
                      \A i, j \in DOMAIN s : i # j => s[i] # s[j]}}

----------------------------------------------------------------------------
(* Specifications *)

vars == <<archive, onProgress, pc, classFiles, allMethods, warnings, processedClasses,
          progressCalls, outcome, buffer, phase, offset, constantPool, constantPoolCount,
          index, className, majorVersion, minorVersion, methods, methodsCount, methodIndex,
          thrown, topMethods, topN, topPc, topReturned, runs, aggregation>>

JarAt(a, p, at) ==
    /\ archive = a
    /\ onProgress = p
    /\ pc = at
    /\ classFiles = <<>>
    /\ allMethods = <<>>
    /\ warnings = <<>>
    /\ processedClasses = 0
    /\ progressCalls = <<>>
    /\ outcome = NotReturned

\* parseJar is entered and suspended at loadAsync.
JarStart(a, p) == JarAt(a, p, "loadAsync")

\* No run is being followed.
JarIdle == JarAt([valid |-> FALSE, entries |-> <<>>], FALSE, "idle")

\* One parseJar run over any archive, with or without a progress callback.
Init ==
    /\ \E a \in Archives, p \in BOOLEAN : JarStart(a, p)
    /\ DecodeIdle
    /\ TopIdle
    /\ PairIdle

Next ==
    \/ ZipRejected
    \/ ZipLoaded
    \/ EntryRead

Spec == Init /\ [][Next]_vars

\* One parseClassFile call on any of the decode inputs.
DecodeInit ==
    /\ \E b \in DecodeInputs : DecodeStart(b)
    /\ JarIdle
    /\ TopIdle
    /\ PairIdle

DecodeSpec == DecodeInit /\ [][DecodeNext]_vars

\* The buffers whose decodes are followed to their end: the sample classes
\* and the class with the wide pool, every prefix of the largest sample and
\* of the wide class, the one-method sample with one byte set to 0 or 255,
\* and the buffers that are no class file.
LiveInputs ==
    {SampleClass(k) : k \in 0..MaxMethods} \cup {WideClass}
    \cup UNION {{SubSeq(b, 1, n) : n \in 0..(Len(b) - 1)} :
                  b \in {SampleClass(MaxMethods), WideClass}}
    \cup UNION {{[SampleClass(1) EXCEPT ![p] = v] : p \in 1..Len(SampleClass(1))} :
                  v \in {0, 255}}
    \cup {[i \in 1..100 |-> 255], <<0, 0, 0>>}

\* parseClassFile(buffer) is called: the decode is entered with the buffer.
CallParseClassFile ==
    /\ phase = "Idle"
    /\ \E b \in LiveInputs : buffer' = b
    /\ phase' = "ExpectMagic"
    /\ UNCHANGED <<offset, constantPool, constantPoolCount, index, className, majorVersion,
                   minorVersion, methods, methodsCount, methodIndex, thrown>>
    /\ UNCHANGED jarVars
    /\ UNCHANGED topVars
    /\ UNCHANGED pairVars

DecodeLiveInit ==
    /\ DecodeIdle
    /\ JarIdle
    /\ TopIdle
    /\ PairIdle

DecodeLiveNext ==
    \/ CallParseClassFile
    \/ DecodeNext

\* parseClassFile is synchronous: once called it runs, statement after
\* statement, until it returns or throws.
DecodeLiveSpec == DecodeLiveInit /\ [][DecodeLiveNext]_vars /\ WF_vars(DecodeNext)

\* The longest list and the largest n of a getTopMethods call.
MaxListLen == 3
MaxTopN == 4

\* The records lists are made of: those of a.B (5 and 2^32 - 1 bytes) and
\* of C (2^31 bytes and none).
TopRecords ==
    {AggregatedEntries(parseClassFile(b))[k] : b \in {ClassAB, ClassC}, k \in 1..2}

\* One getTopMethods call on any list, sorted or not, and any n >= 0.
TopInit ==
    /\ \E list \in UNION {[1..len -> TopRecords] : len \in 0..MaxListLen}, n \in 0..MaxTopN :
          TopStart(list, n)
    /\ JarIdle
    /\ DecodeIdle
    /\ PairIdle

TopNext == GetTopMethods

TopSpec == TopInit /\ [][TopNext]_vars

\* The most entries of an archive of a pair of runs.
MaxPairEntries == 2

\* The archives of a pair of runs: the invalid one, and those made of
\* a/B.class, C.class, the cut class, an a/B.class holding the bytes of the
\* cut class and a C.class whose data cannot be read, the empty one
\* included; an archive has one entry per path.
PairArchives ==
    LET entries == {e \in ArchiveEntries :
                      e.path \in {<<"a", "/", "B">> \o DotClass, <<"C">> \o DotClass,
                                  <<"c", "u", "t">> \o DotClass}}
                   \cup {[path |-> <<"a", "/", "B">> \o DotClass, dir |-> FALSE,
                          bytes |-> SubSeq(ClassAB, 1, Len(ClassAB) - 4),
                          rejection |-> NoError],
                         [path |-> <<"C">> \o DotClass, dir |-> FALSE, bytes |-> ClassC,
                          rejection |-> CrcMismatch]}
    IN  {[valid |-> FALSE, entries |-> <<>>]}
        \cup {[valid |-> TRUE, entries |-> es] :
                es \in {s \in UNION {[1..n -> entries] : n \in 0..MaxPairEntries} :
                          \A i, j \in DOMAIN s : i # j => s[i].path # s[j].path}}

\* Two runs over different archives, both suspended at loadAsync.
PairInit ==
    /\ \E a1 \in PairArchives, a2 \in PairArchives, p \in BOOLEAN :
          /\ a1 # a2
          /\ runs = <<RunStart(a1, p), RunStart(a2, p)>>
    /\ aggregation = <<NoAggregation, NoAggregation>>
    /\ JarIdle
    /\ DecodeIdle
    /\ TopIdle

\* Whichever run's awaited promise settles resumes.
PairNext ==
    \/ \E r \in RunIds : RunZipRejected(r)
    \/ \E r \in RunIds : RunZipLoaded(r)
    \/ \E r \in RunIds : RunEntryRead(r)

PairSpec == PairInit /\ [][PairNext]_vars

----------------------------------------------------------------------------
(* Properties of a parseJar run *)

\* The entries of the archive that pass the filter (the N of a run).
Matching == FindClassFiles(archive.entries)

\* The positions of the matching entries that fail to decode (K of them).
FailingEntries == {i \in 1..Len(Matching) : ReadAndParse(Matching[i]).err # NoError}

\* Every record of every decodable matching entry is in the returned list.
AllDecodedPresent ==
    \A i \in (1..Len(Matching)) \ FailingEntries :
        LET expected == AggregatedEntries(ReadAndParse(Matching[i])) IN
        \A k \in 1..Len(expected) :
            \E j \in 1..Len(outcome.methods) : outcome.methods[j] = expected[k]

\* C1 as stated: a run over N matching entries of which K fail to decode
\* returns classesScanned = N, K warnings and every record of the N - K
\* decodable entries, for every N.
C1_AsStated ==
    /\ archive.valid => pc # "rejected"
    /\ pc = "returned" =>
          /\ outcome.stats.classesScanned = Len(Matching)
          /\ Len(outcome.warnings) = Cardinality(FailingEntries)
          /\ AllDecodedPresent

\* C1: a run over N >= 1 matching entries of which K fail to decode is never
\* aborted and returns classesScanned = N, exactly K warnings and every
\* record of the N - K decodable entries.
C1_PartialFailureContainment ==
    /\ archive.valid => pc # "rejected"
    /\ (pc = "returned" /\ Len(Matching) >= 1) =>
          /\ outcome.stats.classesScanned = Len(Matching)
          /\ Len(outcome.warnings) = Cardinality(FailingEntries)
          /\ AllDecodedPresent

\* A returned run in which some entries failed and others gave records.
C1_Witness ==
    /\ pc = "returned"
    /\ Len(Matching) = 3
    /\ Cardinality(FailingEntries) = 2
    /\ Len(outcome.methods) = 2
    /\ Len(outcome.warnings) = 2

\* C2: in the returned list every record is at least as large as the next.
C2_MonotonicRanking ==
    pc = "returned" =>
        \A i \in 1..(Len(outcome.methods) - 1) :
            LE(outcome.methods[i + 1].bytecodeSize, outcome.methods[i].bytecodeSize)

\* A returned list holding 2^32 - 1, 2^31, 5 and 0.
C2_Witness ==
    /\ pc = "returned"
    /\ {outcome.methods[i].bytecodeSize : i \in 1..Len(outcome.methods)}
         = {<<65535, 65535>>, <<32768, 0>>, <<0, 5>>, <<0, 0>>}

\* C3: with T >= 1 matching entries the k-th call of the progress sink
\* carries (k, T), one call is made per entry processed whether it decoded
\* or failed, and a returned run has made exactly T calls.
C3_ProgressMonotonicity ==
    (onProgress /\ Len(Matching) >= 1 /\ pc \in {"entryAsync", "returned"}) =>
        /\ progressCalls = [k \in 1..processedClasses |-> <<k, Len(Matching)>>]
        /\ pc = "returned" => processedClasses = Len(Matching)

\* A returned run that notified three times, a failed entry among them.
C3_Witness ==
    /\ pc = "returned"
    /\ onProgress
    /\ Len(progressCalls) = 3
    /\ Cardinality(FailingEntries) >= 1

\* The entry whose bytes the run is waiting for, and its decode.
Awaited == classFiles[processedClasses + 1]
AwaitedResult == ReadAndParse(Awaited)

\* The methods parseMethods had pushed on its own list when the decode of
\* the bytes threw inside the method table (none if it threw before).
ParsedBeforeFailure(bytes) ==
    LET pool == parseConstantPool(bytes, W(8))
        interfacesCount == getUint16(bytes, AddN(pool.newOffset, 6))
        fields == skipFields(bytes, AddN(AddN(pool.newOffset, 8), interfacesCount.v * 2),
                             pool.constantPool)
        parsed == parseMethods(bytes, fields.offset, pool.constantPool)
    IN  IF /\ pool.err = NoError /\ interfacesCount.err = NoError /\ fields.err = NoError
           /\ parsed.err # NoError
        THEN parsed.methods
        ELSE <<>>

\* C13: an entry whose decode fails, even with methods already parsed,
\* adds no record to the aggregated list and exactly one warning, naming
\* its path and the error; the list a run returns right after it holds the
\* records that were there before and no other.
C13_NoPartialResult ==
    [][(pc = "entryAsync" /\ AwaitedResult.err # NoError) =>
          /\ Len(allMethods') = Len(allMethods)
          /\ \A i \in 1..Len(allMethods') : \E j \in 1..Len(allMethods) :
                allMethods'[i] = allMethods[j]
          /\ pc' = "entryAsync" => allMethods' = allMethods
          /\ Len(warnings') = Len(warnings) + 1
          /\ SubSeq(warnings', 1, Len(warnings)) = warnings
          /\ warnings'[Len(warnings')]
                = <<"Failed to parse ">> \o Awaited.path \o <<": ">> \o AwaitedResult.err.message
          /\ pc' = "returned" =>
                (outcome'.methods = allMethods' /\ outcome'.warnings = warnings')
       ]_vars

\* A returned run over the class cut inside its second method, after the
\* first was parsed, and a class that decodes: one record, one warning.
C13_Witness ==
    /\ pc = "returned"
    /\ Len(classFiles) = 2
    /\ \E i \in 1..2 :
          /\ parseClassFile(classFiles[i].bytes).err = RangeError
          /\ Len(ParsedBeforeFailure(classFiles[i].bytes)) = 1
    /\ Len(outcome.methods) = 1
    /\ outcome.methods[1].className = <<68>>
    /\ Len(outcome.warnings) = 1

\* C14: a run over a valid archive none of whose entries passes the filter
\* returns, at the step that lists the entries, no method, classesScanned
\* and methodsFound 0 and the one warning 'No .class files found in JAR';
\* it decodes nothing and never calls the progress sink.  A run all of
\* whose N >= 1 matching entries fail returns classesScanned = N and one
\* 'Failed to parse' warning per entry instead.
C14_EmptyArchiveShortCircuit ==
    /\ (archive.valid /\ Len(Matching) = 0 /\ pc # "loadAsync") =>
          /\ pc = "returned"
          /\ outcome.err = NoError
          /\ outcome.methods = <<>>
          /\ outcome.stats = [classesScanned |-> 0, methodsFound |-> 0]
          /\ outcome.warnings = << <<"No .class files found in JAR">> >>
          /\ processedClasses = 0
          /\ allMethods = <<>> /\ warnings = <<>>
          /\ progressCalls = <<>>
    /\ (pc = "returned" /\ Len(Matching) >= 1
          /\ Cardinality(FailingEntries) = Len(Matching)) =>
          /\ outcome.methods = <<>>
          /\ outcome.stats = [classesScanned |-> Len(Matching), methodsFound |-> 0]
          /\ Len(outcome.warnings) = Len(Matching)
          /\ \A i \in 1..Len(Matching) : outcome.warnings[i][1] = "Failed to parse "
          /\ processedClasses = Len(Matching)

\* A returned run, given a progress sink, over an archive holding a file of
\* another kind and a directory whose name ends with .class.
C14_Witness ==
    /\ pc = "returned"
    /\ onProgress
    /\ Len(archive.entries) = 2
    /\ Len(Matching) = 0
    /\ outcome.warnings = << <<"No .class files found in JAR">> >>

\* C15: when the archive cannot be opened the run rejects, at its first
\* step, with the error 'Invalid JAR file: not a valid ZIP archive'; it
\* returns no methods, stats or warnings, lists and decodes no entry and
\* never calls the progress sink.
C15_InvalidContainerAborts ==
    (~archive.valid /\ pc # "loadAsync") =>
        /\ pc = "rejected"
        /\ outcome.err = [name |-> "Error",
                          message |-> <<"Invalid JAR file: not a valid ZIP archive">>]
        /\ outcome.methods = <<>>
        /\ outcome.warnings = <<>>
        /\ outcome.stats = NotReturned.stats
        /\ classFiles = <<>>
        /\ processedClasses = 0
        /\ allMethods = <<>> /\ warnings = <<>>
        /\ progressCalls = <<>>

\* A rejected run that had been given a progress sink.
C15_Witness ==
    /\ pc = "rejected"
    /\ onProgress
    /\ ~archive.valid
    /\ outcome.err.name = "Error"

\* The positions of the archive's entries that are no directory and whose
\* path has .class as its last six characters, and the k-th of them.
KeptPositions ==
    {i \in DOMAIN archive.entries :
        LET path == archive.entries[i].path IN
        /\ ~archive.entries[i].dir
        /\ Len(path) >= 6
        /\ <<path[Len(path) - 5], path[Len(path) - 4], path[Len(path) - 3],
             path[Len(path) - 2], path[Len(path) - 1], path[Len(path)]>>
              = <<".", "c", "l", "a", "s", "s">>}
KeptPosition(k) ==
    CHOOSE i \in KeptPositions : Cardinality({j \in KeptPositions : j < i}) = k - 1

\* The records the decodable entries at the given positions give.
RecordsOf(positions) ==
    UNION {LET result == ReadAndParse(archive.entries[i]) IN
           IF result.err # NoError THEN {}
           ELSE {AggregatedEntries(result)[k] : k \in 1..Len(result.methods)}
           : i \in positions}

\* C16: the entries listed for decoding are exactly the entries that are no
\* directory and whose path ends with '.class', in the archive's order, and
\* they are decoded in that order; a run counts only them in classesScanned
\* and in the progress total, and every warning and every record it
\* returns comes from one of them.
C16_EntryFilter ==
    (archive.valid /\ pc \in {"entryAsync", "returned"}) =>
        /\ Len(classFiles) = Cardinality(KeptPositions)
        /\ \A k \in 1..Len(classFiles) : classFiles[k] = archive.entries[KeptPosition(k)]
        /\ Len(warnings) <= processedClasses
        /\ \A i \in 1..Len(progressCalls) : progressCalls[i][2] = Cardinality(KeptPositions)
        /\ \A i \in 1..Len(allMethods) :
              allMethods[i] \in RecordsOf({KeptPosition(k) : k \in 1..processedClasses})
        /\ \A i \in 1..Len(warnings) :
              \E k \in 1..processedClasses :
                 /\ ReadAndParse(archive.entries[KeptPosition(k)]).err # NoError
                 /\ warnings[i] = FailedToParse(archive.entries[KeptPosition(k)].path,
                          ReadAndParse(archive.entries[KeptPosition(k)]).err)
        /\ pc = "returned" =>
              /\ outcome.stats.classesScanned = Cardinality(KeptPositions)
              /\ processedClasses = Cardinality(KeptPositions)
              /\ \A i \in 1..Len(outcome.methods) : outcome.methods[i] \in RecordsOf(KeptPositions)
              /\ Cardinality(KeptPositions) >= 1 => outcome.warnings = warnings

\* A returned run over a file with .class inside its name, holding a class,
\* a class file and a directory named like one: one entry scanned.
C16_Witness ==
    /\ pc = "returned"
    /\ Len(archive.entries) = 3
    /\ archive.entries[1].path = <<"e", ".", "c", "l", "a", "s", "s", "e", "s">>
    /\ archive.entries[3].dir
    /\ outcome.stats.classesScanned = 1
    /\ Len(outcome.methods) = 1
    /\ outcome.methods[1].className = <<68>>

\* The name with each slash (47) turned into a dot (46).
DotForm(name) == [i \in 1..Len(name) |-> IF name[i] = 47 THEN 46 ELSE name[i]]

\* The records an entry that decodes to result is to give, in order.
RecordsFor(result) ==
    [i \in 1..Len(result.methods) |->
        [className |-> DotForm(result.className),
         methodName |-> result.methods[i].name,
         descriptor |-> result.methods[i].descriptor,
         bytecodeSize |-> result.methods[i].bytecodeSize]]

\* C17: an entry that decodes adds one record per method, whose className
\* is the decoded class name with every slash replaced by a dot and whose
\* methodName, descriptor and bytecodeSize are those of the method,
\* unchanged; no className of the list holds a slash, and the descriptor of
\* p/q/R's method keeps its slashes.
C17_ClassNameRewrite ==
    /\ [](\A i \in 1..Len(allMethods) :
            /\ \A k \in 1..Len(allMethods[i].className) : allMethods[i].className[k] # 47
            /\ allMethods[i].className = <<112, 46, 113, 46, 82>>
                  => allMethods[i].descriptor = <<40, 76, 112, 47, 113, 47, 82, 59, 41, 86>>)
    /\ [](pc = "returned" => (Len(Matching) = 0 \/ outcome.methods = allMethods))
    /\ [][(pc = "entryAsync" /\ AwaitedResult.err = NoError) =>
             /\ Len(allMethods') = Len(allMethods) + Len(AwaitedResult.methods)
             /\ pc' = "entryAsync" => allMethods' = allMethods \o RecordsFor(AwaitedResult)
             /\ \A k \in 1..Len(AwaitedResult.methods) :
                   \E i \in 1..Len(allMethods') : allMethods'[i] = RecordsFor(AwaitedResult)[k]
          ]_vars

\* A returned list with the record of p.q.R, its descriptor untouched,
\* and one of a.B.
C17_Witness ==
    /\ pc = "returned"
    /\ \E i, j \in 1..Len(outcome.methods) :
          /\ outcome.methods[i].className = <<112, 46, 113, 46, 82>>
          /\ outcome.methods[i].descriptor = <<40, 76, 112, 47, 113, 47, 82, 59, 41, 86>>
          /\ outcome.methods[i].bytecodeSize = <<0, 7>>
          /\ outcome.methods[j].className = <<97, 46, 66>>

RECURSIVE RecordsInOrder(_)
\* The records of the decodable entries among the given ones, entry after
\* entry, each entry's in the order of its method table.
RecordsInOrder(entries) ==
    IF entries = <<>> THEN <<>>
    ELSE LET result == ReadAndParse(entries[Len(entries)]) IN
         RecordsInOrder(SubSeq(entries, 1, Len(entries) - 1))
         \o (IF result.err = NoError THEN RecordsFor(result) ELSE <<>>)

\* How many times x occurs in the list.
Occurrences(list, x) == Cardinality({i \in DOMAIN list : list[i] = x})

\* C19: a run returns methodsFound equal to the length of the list it
\* returns, which is the sum of the method counts of the entries that
\* decoded; the list holds each of their records as many times as they
\* give it, so the sort lost and duplicated none.
C19_Conservation ==
    pc = "returned" =>
        /\ outcome.stats.methodsFound = Len(outcome.methods)
        /\ Len(outcome.methods) = Len(RecordsInOrder(Matching))
        /\ \A i \in 1..Len(RecordsInOrder(Matching)) :
              Occurrences(outcome.methods, RecordsInOrder(Matching)[i])
                = Occurrences(RecordsInOrder(Matching), RecordsInOrder(Matching)[i])

\* A returned list of five records, two of them of the same size, from
\* three entries that decoded.
C19_Witness ==
    /\ pc = "returned"
    /\ Len(Matching) = 3
    /\ FailingEntries = {}
    /\ outcome.stats.methodsFound = 5
    /\ \E i \in 1..4 : outcome.methods[i].bytecodeSize = outcome.methods[i + 1].bytecodeSize

\* The records of the given size, in the order the list has them.
OfSize(list, size) == SelectSeq(list, LAMBDA record : record.bytecodeSize = size)

\* C26: in the list a run returns, the records of one bytecodeSize stand in
\* the order they were met: by the place of their entries in the archive
\* and, for one entry, by the place of the methods in its method table;
\* neither the class name nor the method name takes part.
C26_TieOrder ==
    (pc = "returned" /\ Len(Matching) > 0) =>
        \A i \in 1..Len(outcome.methods) :
           OfSize(outcome.methods, outcome.methods[i].bytecodeSize)
             = OfSize(RecordsInOrder(Matching), outcome.methods[i].bytecodeSize)

\* A returned list in which a.B's record of size 5 stands before D's, and
\* T's n before T's m before p.q.R's m, all three of size 7: T.class
\* precedes p/q/R.class in the archive, and n precedes m in T.
C26_Witness ==
    /\ pc = "returned"
    /\ \/ /\ Len(outcome.methods) = 3
          /\ [i \in 1..3 |-> <<outcome.methods[i].className, outcome.methods[i].methodName,
                               outcome.methods[i].bytecodeSize>>]
               = <<<<<<84>>, <<110>>, W(7)>>, <<<<84>>, <<109>>, W(7)>>,
                   <<<<112, 46, 113, 46, 82>>, <<109>>, W(7)>>>>
       \/ /\ Len(outcome.methods) = 3
          /\ [i \in 1..3 |-> <<outcome.methods[i].className, outcome.methods[i].bytecodeSize>>]
               = <<<<<<97, 46, 66>>, <<65535, 65535>>>>, <<<<97, 46, 66>>, W(5)>>,
                   <<<<68>>, W(5)>>>>

RECURSIVE WarningsInOrder(_)
\* The warnings of the entries among the given ones that fail to decode,
\* entry after entry.
WarningsInOrder(entries) ==
    IF entries = <<>> THEN <<>>
    ELSE LET e == entries[Len(entries)]
             result == ReadAndParse(e)
         IN  WarningsInOrder(SubSeq(entries, 1, Len(entries) - 1))
             \o (IF result.err = NoError THEN <<>>
                 ELSE << <<"Failed to parse ">> \o e.path \o <<": ">> \o result.err.message >>)

\* C27: while a run over listed entries goes on, its warnings are those of
\* the entries decoded so far that failed, one string each, made of the
\* entry's path and the message of the error, in the order of the entries;
\* the run returns these warnings for all its entries. A step only appends
\* to the warnings, and the step of an entry that decodes leaves them as
\* they are.
C27_Warnings ==
    /\ [](pc = "entryAsync" =>
            warnings = WarningsInOrder(SubSeq(classFiles, 1, processedClasses)))
    /\ []((pc = "returned" /\ Len(Matching) > 0) =>
            /\ outcome.warnings = WarningsInOrder(Matching)
            /\ Len(outcome.warnings) = Cardinality(FailingEntries))
    /\ [][/\ Len(warnings') >= Len(warnings)
          /\ SubSeq(warnings', 1, Len(warnings)) = warnings
          /\ (pc = "entryAsync" /\ AwaitedResult.err = NoError) => warnings' = warnings
          /\ pc = "entryAsync" => Len(warnings') <= Len(warnings) + 1
         ]_vars

\* A returned run over cut.class, a class that decodes and bad.class, in
\* this order: the warning of cut.class, then the warning of bad.class.
C27_Witness ==
    /\ pc = "returned"
    /\ Len(classFiles) = 3
    /\ Len(outcome.methods) > 0
    /\ Len(outcome.warnings) = 2
    /\ SubSeq(outcome.warnings[1], 1, 9)
         = <<"Failed to parse ", "c", "u", "t", ".", "c", "l", "a", "s">>
    /\ SubSeq(outcome.warnings[2], 1, 9)
         = <<"Failed to parse ", "b", "a", "d", ".", "c", "l", "a", "s">>
    /\ ReadAndParse(classFiles[2]).err = NoError

----------------------------------------------------------------------------
(* Properties of one decode *)

\* Whether n bytes lie in the buffer from position o on, and from the
\* current offset on.
HasAt(o, n) == o + n <= Len(buffer)
Has(n) == offset[1] = 0 /\ HasAt(offset[2], n)

\* The byte and the big-endian 16-bit value at position o, and those k bytes
\* after the current offset.
U8At(o) == buffer[o + 1]
U16At(o) == buffer[o + 1] * 256 + buffer[o + 2]
At(k) == U8At(offset[2] + k)
At16(k) == U16At(offset[2] + k)

\* Index i is a Utf8 slot of the table; index i is a Class slot whose name
\* index is a Utf8 slot.
ValidUtf8(i) ==
    /\ i >= 1
    /\ i < Len(constantPool)
    /\ constantPool[i + 1].kind = "entry"
    /\ constantPool[i + 1].tag = 1
ValidClass(i) ==
    /\ i >= 1
    /\ i < Len(constantPool)
    /\ constantPool[i + 1].kind = "entry"
    /\ constantPool[i + 1].tag = 7
    /\ ValidUtf8(constantPool[i + 1].nameIndex)

IsInvalidReference(e) ==
    /\ e.name = "Error"
    /\ Len(e.message) >= 2
    /\ e.message[1] \in {"Invalid class reference at index ",
                         "Invalid name reference at index ",
                         "Invalid UTF8 reference at index "}

\* The next step starts with a read for which too few bytes remain.
TruncatedRead ==
    \/ phase \in {"ExpectMagic", "ExpectVersion"} /\ ~Has(4)
    \/ phase \in {"ExpectPool", "ExpectInterfaces", "ExpectFields", "ExpectMethods"} /\ ~Has(2)
    \/ phase \in {"ExpectHeaderAndClassName", "MethodLoop"} /\ ~Has(6)
    \/ phase = "PoolLoop" /\ ~Has(1)
    \/ phase = "MethodLoop" /\ ValidUtf8(At16(2)) /\ ValidUtf8(At16(4)) /\ ~Has(8)

\* The reads of one constant pool entry at position o: one of them lacks bytes.
TruncatedEntryAt(o) ==
    \/ ~HasAt(o, 1)
    \/ U8At(o) \in {1, 7} /\ ~HasAt(o, 3)
    \/ U8At(o) = 12 /\ ~HasAt(o, 5)
    \/ U8At(o) = 1 /\ ~HasAt(o, 3 + U16At(o + 1))

\* The reads of one method attribute at position o: one of them lacks bytes.
TruncatedAttributeAt(o) ==
    \/ ~HasAt(o, 6)
    \/ /\ ValidUtf8(U16At(o))
       /\ constantPool[U16At(o) + 1].value = CodeName
       /\ ~HasAt(o, 14)

\* Whatever position a loop has reached, a read of its body that lacks
\* bytes makes the body throw a RangeError: the one of the Uint8Array
\* constructor for the bytes of a Utf8 entry, the one of DataView otherwise.
ReadsCheckedEverywhere ==
    \A o \in 0..(Len(buffer) + 1) :
        /\ (phase = "PoolLoop" /\ TruncatedEntryAt(o))
              => ConstantEntry(buffer, W(o), index).err
                   = (IF HasAt(o, 3) /\ U8At(o) = 1
                      THEN InvalidLengthError(U16At(o + 1))
                      ELSE RangeError)
        /\ (phase = "ExpectFields" /\ ~HasAt(o, 2)) =>
              /\ skipFields(buffer, W(o), constantPool).err = RangeError
              /\ skipAttributes(buffer, W(o)).err = RangeError
        /\ (phase = "ExpectFields" /\ ~HasAt(o, 6))
              => SkipAttribute(buffer, W(o)).err = RangeError
        /\ (phase = "MethodLoop" /\ ~HasAt(o, 2))
              => parseMethodAttributes(buffer, W(o), constantPool).err = RangeError
        /\ (phase = "MethodLoop" /\ TruncatedAttributeAt(o))
              => MethodAttribute(buffer, W(o), constantPool, Zero).err = RangeError

\* C4: a step whose read lacks bytes ends the decode with a RangeError (the
\* truncation error) and no result, and so does every read of a loop body
\* at every position; a buffer shorter than 4 bytes fails at the magic read.
C4_PerReadTruncation ==
    /\ []ReadsCheckedEverywhere
    /\ [][TruncatedRead =>
            /\ phase' = "Failed"
            /\ thrown' = RangeError
            /\ DecodeOutcome' = ThrownResult(RangeError)]_vars

\* A decode ended by a truncated read after a method had been parsed.
C4_Witness ==
    /\ phase = "Failed"
    /\ thrown = RangeError
    /\ Len(methods) = 1

\* C5 as stated: no decode completes after a skip has moved the position
\* past the end of the buffer.
C5_SkipsBoundsChecked == phase = "Done" => LE(offset, W(Len(buffer)))

\* The four bytes of the magic read, as a number.
First4 == <<U16At(0), U16At(2)>>

MagicPrefix == "Invalid class file: expected magic number 0xCAFEBABE, got 0x"

\* C6: once the magic of a buffer of at least 4 bytes has been read, the
\* decode has failed with the magic-number message ending in the value read,
\* in upper-case hexadecimal, with nothing else read, exactly when the value
\* is not 0xCAFEBABE.
C6_BadMagic ==
    (Len(buffer) >= 4 /\ phase \notin {"ExpectMagic", "Idle"}) =>
        IF First4 # <<51966, 47806>>
        THEN /\ phase = "Failed"
             /\ thrown = Error(<<MagicPrefix>> \o HexUpper(First4))
             /\ First4 = <<65535, 65535>>
                   => thrown.message = <<MagicPrefix, "F", "F", "F", "F", "F", "F", "F", "F">>
             /\ First4 = <<254, 47806>>
                   => thrown.message = <<MagicPrefix, "F", "E", "B", "A", "B", "E">>
             /\ First4 = <<51966, 190>>
                   => thrown.message = <<MagicPrefix, "C", "A", "F", "E", "0", "0", "B", "E">>
             /\ offset = W(4)
             /\ constantPool = <<>> /\ constantPoolCount = 0
             /\ majorVersion = 0 /\ minorVersion = 0
             /\ methods = <<>>
        ELSE thrown.message = <<>> \/ thrown.message[1] # MagicPrefix

\* A buffer whose first byte is zero, rejected with the value FEBABE.
C6_Witness ==
    /\ phase = "Failed"
    /\ Len(buffer) > 4
    /\ thrown.message = <<MagicPrefix, "F", "E", "B", "A", "B", "E">>

KnownTags == {1, 3, 4, 5, 6, 7, 8, 9, 10, 11, 12, 15, 16, 17, 18, 19, 20}

\* C7: a tag byte outside the known tags ends the decode with the unknown
\* tag error carrying the tag and the running index; the table and the
\* index are left as they were and only the tag byte has been consumed.
C7_UnknownTagHardStop ==
    [][(phase = "PoolLoop" /\ Has(1) /\ At(0) \notin KnownTags) =>
          /\ phase' = "Failed"
          /\ thrown' = Error(<<"Unknown constant pool tag: ">> \o Dec(At(0))
                             \o <<" at index ">> \o Dec(index))
          /\ constantPool' = constantPool
          /\ index' = index
          /\ offset' = AddN(offset, 1)]_vars

\* Tag 255 met at index 6, after a Long at index 4.
C7_Witness ==
    /\ phase = "Failed"
    /\ thrown.message = <<"Unknown constant pool tag: ", "2", "5", "5", " at index ", "6">>
    /\ Len(constantPool) = 6

\* C8: the header step succeeds only with this_class at a Class slot whose
\* name index is at a Utf8 slot, and a method step only with its name and
\* descriptor indices at Utf8 slots; index 0, an index beyond the table or a
\* slot of another tag ends the decode with an invalid reference error, and
\* so does an attribute name index at whatever position it is read.
C8_ReferenceValidity ==
    /\ [](phase = "MethodLoop" =>
            \A o \in 0..Len(buffer) :
                (HasAt(o, 6) /\ ~ValidUtf8(U16At(o))) =>
                    MethodAttribute(buffer, W(o), constantPool, Zero).err
                        = Error(<<"Invalid UTF8 reference at index ">> \o Dec(U16At(o))))
    /\ [][/\ (phase = "ExpectHeaderAndClassName" /\ Has(6) /\ ~ValidClass(At16(2)))
                => (phase' = "Failed" /\ IsInvalidReference(thrown'))
          /\ (phase = "ExpectHeaderAndClassName" /\ phase' # "Failed")
                => (/\ ValidClass(At16(2))
                    /\ className' = constantPool[constantPool[At16(2) + 1].nameIndex + 1].value)
          /\ (phase = "MethodLoop" /\ Has(6) /\ ~ValidUtf8(At16(2)))
                => (/\ phase' = "Failed"
                    /\ thrown' = Error(<<"Invalid UTF8 reference at index ">> \o Dec(At16(2))))
          /\ (phase = "MethodLoop" /\ Has(6) /\ ValidUtf8(At16(2)) /\ ~ValidUtf8(At16(4)))
                => (/\ phase' = "Failed"
                    /\ thrown' = Error(<<"Invalid UTF8 reference at index ">> \o Dec(At16(4))))
          /\ (phase = "MethodLoop" /\ Has(14) /\ ValidUtf8(At16(2)) /\ ValidUtf8(At16(4))
                /\ At16(6) >= 1 /\ ~ValidUtf8(At16(8)))
                => (phase' = "Failed" /\ IsInvalidReference(thrown'))
          /\ (phase = "MethodLoop" /\ phase' # "Failed")
                => (/\ ValidUtf8(At16(2)) /\ ValidUtf8(At16(4))
                    /\ methods'[Len(methods')].name = constantPool[At16(2) + 1].value
                    /\ methods'[Len(methods')].descriptor = constantPool[At16(4) + 1].value)
         ]_vars

\* A second method whose name index is beyond the table.
C8_Witness ==
    /\ phase = "Failed"
    /\ thrown.message = <<"Invalid UTF8 reference at index ", "2", "5", "5">>
    /\ Len(methods) = 1

\* C9: the slot after a Long or Double entry is the null placeholder, which
\* resolves neither as a class reference nor as a UTF-8 string, and the
\* entry parsed next is stored two slots after the Long or Double.
C9_SlotConsistency ==
    /\ [](\A i \in 1..(Len(constantPool) - 1) :
            (constantPool[i + 1].kind = "entry" /\ constantPool[i + 1].tag \in {5, 6}) =>
                /\ i + 2 <= Len(constantPool)
                /\ constantPool[i + 2] = Null
                /\ resolveUtf8(constantPool, i + 1).err
                     = Error(<<"Invalid UTF8 reference at index ">> \o Dec(i + 1))
                /\ resolveClassName(constantPool, i + 1).err
                     = Error(<<"Invalid class reference at index ">> \o Dec(i + 1)))
    /\ [](phase = "PoolLoop" => Len(constantPool) = index)
    /\ [][(phase = "PoolLoop" /\ phase' # "Failed") =>
             /\ constantPool'[index + 1].kind = "entry"
             /\ SubSeq(constantPool', 1, index) = constantPool
             /\ IF At(0) \in {5, 6}
                THEN index' = index + 2 /\ Len(constantPool') = index + 2
                ELSE index' = index + 1 /\ Len(constantPool') = index + 1]_vars

\* A decode that failed resolving index 5, the slot after the Long at 4.
C9_Witness ==
    /\ phase = "Failed"
    /\ thrown.message \in {<<"Invalid UTF8 reference at index ", "5">>,
                           <<"Invalid class reference at index ", "5">>}
    /\ constantPool[5].tag = 5
    /\ constantPool[7].tag = 1

RECURSIVE AttributeNamesFrom(_, _)
\* The names of the n attributes laid out from position o on.
AttributeNamesFrom(o, n) ==
    IF n = 0 THEN {}
    ELSE {constantPool[U16At(o) + 1].value}
         \cup (IF n = 1 THEN {}
               ELSE AttributeNamesFrom(o + 6 + U16At(o + 4), n - 1))

\* C10: a method step that succeeds on a method none of whose attributes is
\* named 'Code' pushes a record whose bytecodeSize is the number 0.
C10_CodeLessMethods ==
    [][(phase = "MethodLoop" /\ phase' # "Failed") =>
          (CodeName \notin AttributeNamesFrom(offset[2] + 8, At16(6))
              => methods'[Len(methods')].bytecodeSize = <<0, 0>>)]_vars

\* A decoded class with a method without attributes, one with attributes
\* none of which is named 'Code', or both, next to none with code.
C10_Witness ==
    /\ phase = "Done"
    /\ Len(methods) = 2
    /\ methods[1].bytecodeSize = <<0, 0>>
    /\ methods[2].bytecodeSize = <<0, 0>>


\* C11: for every buffer parseClassFile decodes, the reference decoder of
\* test/extract-expected.js succeeds too and lists the same methods in the
\* same order, each with the same name, descriptor and code length.
C11_AgreesWithReference ==
    phase = "Done" =>
        LET expected == ExpectedParseClassFile(buffer) IN
        /\ expected.err = NoError
        /\ Len(expected.methods) = Len(methods)
        /\ \A i \in 1..Len(methods) :
              /\ expected.methods[i].name = methods[i].name
              /\ expected.methods[i].descriptor = methods[i].descriptor
              /\ expected.methods[i].codeLength = methods[i].bytecodeSize

\* The class with a pool entry of every tag, decoded with its two methods.
C11_Witness ==
    /\ phase = "Done"
    /\ buffer = WideClass
    /\ Len(methods) = 2
    /\ ExpectedParseClassFile(buffer).methods
         = <<[name |-> <<114, 117, 110>>, descriptor |-> <<40, 41, 86>>, codeLength |-> <<0, 3>>],
             [name |-> <<103, 111>>, descriptor |-> <<40, 41, 86>>, codeLength |-> <<0, 2>>]>>


RECURSIVE AttributesEndFrom(_, _)
\* The position after n attributes laid out from position o on.
AttributesEndFrom(o, n) ==
    IF n = 0 THEN <<0, o>>
    ELSE LET lo == o + 6 + U16At(o + 4)
             end == <<U16At(o + 2) + lo \div 65536, lo % 65536>>
         IN  IF n = 1 THEN end ELSE AttributesEndFrom(end[2], n - 1)

\* C12: a decode that succeeds returns exactly methods_count records: the
\* count is the 16-bit value at the head of the method table, every method
\* step appends one record, resolved from the name and descriptor indices
\* of the method_info it starts at, behind the records already there, and
\* leaves the position at the method_info that follows.
C12_MethodCompletenessAndOrder ==
    /\ [](phase = "Done" => Len(methods) = methodsCount)
    /\ [](phase = "MethodLoop" => (Len(methods) = methodIndex /\ methodIndex < methodsCount))
    /\ []((phase = "Done" /\ buffer = WideClass) =>
            <<methods[1].name, methods[2].name>> = <<<<114, 117, 110>>, <<103, 111>>>>)
    /\ [][/\ (phase = "ExpectMethods" /\ phase' # "Failed")
                => (methodsCount' = At16(0) /\ methods' = <<>>)
          /\ (phase = "MethodLoop" /\ phase' # "Failed") =>
                /\ Len(methods') = Len(methods) + 1
                /\ SubSeq(methods', 1, Len(methods)) = methods
                /\ methods'[Len(methods')].name = constantPool[At16(2) + 1].value
                /\ methods'[Len(methods')].descriptor = constantPool[At16(4) + 1].value
                /\ offset' = AttributesEndFrom(offset[2] + 8, At16(6))
                /\ methodsCount' = methodsCount
         ]_vars

\* The two methods of the wide class, decoded in the order of the table:
\* run before go.
C12_Witness ==
    /\ phase = "Done"
    /\ methodsCount = 2
    /\ methods[1].name = <<114, 117, 110>>
    /\ methods[2].name = <<103, 111>>
    /\ methods[1].bytecodeSize = <<0, 3>>


\* The place of a phase in the order magic, version, constant pool,
\* header and class name, interfaces, fields, methods, Done; the loops over
\* the pool entries and over the methods belong to the pool and methods
\* phases.
PhaseRank(ph) ==
    CASE ph = "ExpectMagic" -> 1
      [] ph = "ExpectVersion" -> 2
      [] ph \in {"ExpectPool", "PoolLoop"} -> 3
      [] ph = "ExpectHeaderAndClassName" -> 4
      [] ph = "ExpectInterfaces" -> 5
      [] ph = "ExpectFields" -> 6
      [] ph \in {"ExpectMethods", "MethodLoop"} -> 7
      [] ph = "Done" -> 8
      [] OTHER -> 0

\* C22: a decode starts at the magic phase; a step that succeeds stays in
\* the phase it is in (one more pool entry, one more method) or enters the
\* next one of the order, never an earlier one and never one further on; a
\* step that fails ends the decode with its error; no step follows Done or
\* the failure, so Done is not reached after a failure and no phase is
\* entered twice.
C22_DecoderStateMachine ==
    /\ [](phase = "Failed" <=> thrown # NoError)
    /\ [][/\ phase \notin {"Done", "Failed", "Idle"}
          /\ \/ phase' = "Failed" /\ thrown' # NoError
             \/ /\ thrown' = NoError
                /\ \/ PhaseRank(phase') = PhaseRank(phase) + 1
                   \/ /\ phase' = phase
                      /\ phase \in {"PoolLoop", "MethodLoop"}
                   \/ /\ phase = "ExpectPool" /\ phase' = "PoolLoop"
                   \/ /\ phase = "ExpectMethods" /\ phase' = "MethodLoop"
         ]_vars

\* A decode that went through every phase, its pool and method loops
\* included, and is done.
C22_Witness ==
    /\ phase = "Done"
    /\ thrown = NoError
    /\ constantPoolCount > 1
    /\ methodsCount = 2
    /\ className # <<>>
    /\ majorVersion = 52

\* C23 as stated: the this_class index is resolved before the super_class
\* index is read, so a header step that can read access_flags and this_class
\* and finds this_class invalid fails with an invalid reference error,
\* whether or not the two bytes of super_class are there.
C23_ThisClassResolvedBeforeSuperClass ==
    [][(phase = "ExpectHeaderAndClassName" /\ Has(4) /\ ~ValidClass(At16(2))) =>
          (phase' = "Failed" /\ IsInvalidReference(thrown'))]_vars

RECURSIVE AttributesFitFrom(_, _)
\* n attributes laid out from position o on lie inside the buffer.
AttributesFitFrom(o, n) ==
    IF n = 0 THEN o <= Len(buffer)
    ELSE /\ HasAt(o, 6)
         /\ U16At(o + 2) = 0
         /\ HasAt(o + 6, U16At(o + 4))
         /\ AttributesFitFrom(o + 6 + U16At(o + 4), n - 1)

RECURSIVE AttributesSizeFrom(_, _)
\* The sum of 6 + Li over n attributes laid out from position o on.
AttributesSizeFrom(o, n) ==
    IF n = 0 THEN 0
    ELSE LET size == 6 + U16At(o + 4) IN size + AttributesSizeFrom(o + size, n - 1)

\* The attribute list at position o, count included, lies inside the buffer.
AttributeListFitsAt(o) == HasAt(o, 2) /\ AttributesFitFrom(o + 2, U16At(o))
AttributeListEnd(o) == o + 2 + AttributesSizeFrom(o + 2, U16At(o))

RECURSIVE FieldsFitFrom(_, _)
\* n fields laid out from position o on lie inside the buffer.
FieldsFitFrom(o, n) ==
    IF n = 0 THEN o <= Len(buffer)
    ELSE /\ HasAt(o, 6)
         /\ AttributeListFitsAt(o + 6)
         /\ FieldsFitFrom(AttributeListEnd(o + 6), n - 1)

RECURSIVE FieldsEndFrom(_, _)
FieldsEndFrom(o, n) ==
    IF n = 0 THEN o ELSE FieldsEndFrom(AttributeListEnd(o + 6), n - 1)

\* C24: skipAttributes, started at any position where an attribute list
\* with count c and declared lengths L1..Lc lies inside the buffer, returns
\* that position + 2 + the sum of 6 + Li, whatever the attribute name
\* indices and contents are; and the field step of a decode whose field
\* table lies inside the buffer never fails: it moves the position behind
\* the table, each field taking 6 bytes and its attribute list.
C24_SkipArithmetic ==
    /\ [](phase = "ExpectMagic" =>
            \A o \in 0..Len(buffer) :
               AttributeListFitsAt(o) =>
                  skipAttributes(buffer, W(o))
                     = [err |-> NoError, offset |-> W(AttributeListEnd(o))])
    /\ [][(/\ phase = "ExpectFields"
           /\ Has(2)
           /\ FieldsFitFrom(offset[2] + 2, At16(0)))
            => /\ phase' = "ExpectMethods"
               /\ offset' = W(FieldsEndFrom(offset[2] + 2, At16(0)))]_vars

\* The position of fields_count in a class with the sample pool and one
\* interface.
SampleFieldsAt == 10 + Len(Flatten(SamplePool)) + 10

\* A decode finished on a class whose one field has one attribute of length
\* 1 with a name index that is no Utf8 entry of the pool.
C24_Witness ==
    /\ phase = "Done"
    /\ Len(methods) = 1
    /\ Len(buffer) = Len(SampleClass(1))
    /\ U16At(SampleFieldsAt) = 1
    /\ U16At(SampleFieldsAt + 8) = 1
    /\ ~ValidUtf8(U16At(SampleFieldsAt + 10))
    /\ U16At(SampleFieldsAt + 14) = 1
    /\ AttributeListFitsAt(SampleFieldsAt + 8)
    /\ AttributeListEnd(SampleFieldsAt + 8) = SampleFieldsAt + 17

\* The attribute at position o is named 'Code' by the pool.
NamedCodeAt(o) ==
    /\ HasAt(o, 6)
    /\ ValidUtf8(U16At(o))
    /\ constantPool[U16At(o) + 1].value = CodeName

\* C25: wherever in the buffer an attribute named 'Code' is processed
\* without error, the position returned is the one right behind the 4-byte
\* length field plus the declared attribute length, as for an attribute of
\* any other name, and the size returned is the code_length field: the
\* code length takes no part in the position. On a method step that
\* succeeds the position moves behind the attributes by their declared
\* lengths alone.
C25_CodeAttributePositioning ==
    /\ [](phase = "ExpectMethods" =>
            \A o \in 0..Len(buffer) :
               HasAt(o, 6) =>
                  LET r == MethodAttribute(buffer, W(o), constantPool, Zero)
                      declared == <<U16At(o + 2), U16At(o + 4)>>
                  IN  r.err = NoError =>
                         /\ r.offset = Add(W(o + 6), declared)
                         /\ NamedCodeAt(o) =>
                              r.bytecodeSize = <<U16At(o + 10), U16At(o + 12)>>
                         /\ ~NamedCodeAt(o) => r.bytecodeSize = Zero)
    /\ [][(phase = "MethodLoop" /\ phase' # "Failed" /\ NamedCodeAt(offset[2] + 8))
             => offset' = AttributesEndFrom(offset[2] + 8, At16(6))]_vars

\* A decode finished on a sample class whose Code attribute declares 9
\* bytes and a code length of 255 or more: the record has that size and
\* the position is the end of the buffer.
C25_Witness ==
    /\ phase = "Done"
    /\ Len(buffer) = Len(SampleClass(1))
    /\ offset = W(Len(buffer))
    /\ Len(methods) = 1
    /\ methods[1].bytecodeSize \notin {W(1), Zero}
    /\ LET o == SampleFieldsAt + 17 + 2 + 8 IN
          /\ NamedCodeAt(o)
          /\ <<U16At(o + 2), U16At(o + 4)>> = W(9)

\* The steps a decode has left at most: the parts of parseClassFile not yet
\* entered, and the iterations left of the loop it is in.
StepsLeft ==
    IF phase \in {"Done", "Failed", "Idle"} THEN 0
    ELSE (10 - PhaseRank(phase)) * 131072
         + (IF phase = "PoolLoop" THEN constantPoolCount - index
            ELSE IF phase = "MethodLoop" THEN methodsCount - methodIndex
            ELSE IF phase \in {"ExpectPool", "ExpectMethods"} THEN 65536
            ELSE 0)

\* C28: every decode ends, returning or throwing. Each step brings it
\* closer to its end; an iteration of the constant pool loop that does not
\* throw raises the index, by 1 or by 2, below a count of at most 65535,
\* and an iteration of the method loop raises its counter by 1 below a
\* count of at most 65535.
C28_Termination ==
    /\ (phase = "ExpectMagic") ~> (phase \in {"Done", "Failed"})
    /\ [](StepsLeft >= 0)
    /\ [](phase = "PoolLoop" => (index < constantPoolCount /\ constantPoolCount <= 65535))
    /\ [](phase = "MethodLoop" => (methodIndex < methodsCount /\ methodsCount <= 65535))
    /\ [][/\ phase # "Idle" => StepsLeft' < StepsLeft
          /\ (phase = "PoolLoop" /\ phase' # "Failed") =>
                (index' > index /\ index' <= index + 2)
          /\ (phase = "MethodLoop" /\ phase' # "Failed") => methodIndex' = methodIndex + 1
         ]_vars

\* Decodes that ended: one returned after 20 constant pool iterations and
\* two method iterations, others threw inside a loop.
C28_Witness ==
    /\ phase = "Done"
    /\ buffer = WideClass
    /\ index = 21
    /\ methodIndex = 2

\* The length the attribute at position o declares.
DeclaredAt(o) == <<U16At(o + 2), U16At(o + 4)>>

\* C29 as stated: the code_length of a 'Code' attribute is read only when
\* the attribute declares at least 8 bytes, so the record of a method whose
\* one attribute is a 'Code' attribute declaring less has the size 0 it
\* started with.
C29_ReadsInsideAttribute ==
    [][(/\ phase = "MethodLoop"
        /\ phase' # "Failed"
        /\ At16(6) = 1
        /\ NamedCodeAt(offset[2] + 8)
        /\ LT(DeclaredAt(offset[2] + 8), W(8)))
          => methods'[Len(methods')].bytecodeSize = Zero]_vars

\* C29, amended: of an attribute of a method the decoder reads the name
\* index and the declared length, and of one named 'Code' also the four
\* bytes at its start + 10, whatever its declared length: when they lie in
\* the buffer they are the size recorded, inside the attribute or not, and
\* when they do not the decode fails with a RangeError. The bytes of an
\* attribute of another name are not read. The position moves by the
\* declared length in each case.
C29_CodeLengthRead ==
    /\ [](phase = "ExpectMethods" =>
            \A o \in 0..Len(buffer) :
               (HasAt(o, 6) /\ ValidUtf8(U16At(o))) =>
                  LET r == MethodAttribute(buffer, W(o), constantPool, Zero) IN
                  IF ~NamedCodeAt(o)
                  THEN r = [err |-> NoError, offset |-> Add(W(o + 6), DeclaredAt(o)),
                            bytecodeSize |-> Zero]
                  ELSE IF HasAt(o + 10, 4)
                  THEN r = [err |-> NoError, offset |-> Add(W(o + 6), DeclaredAt(o)),
                            bytecodeSize |-> <<U16At(o + 10), U16At(o + 12)>>]
                  ELSE r.err = RangeError)
    /\ [][(/\ phase = "MethodLoop"
           /\ phase' # "Failed"
           /\ At16(6) = 1
           /\ NamedCodeAt(offset[2] + 8))
             => /\ HasAt(offset[2] + 18, 4)
                /\ methods'[Len(methods')].bytecodeSize
                     = <<U16At(offset[2] + 18), U16At(offset[2] + 20)>>
                /\ offset' = Add(W(offset[2] + 14), DeclaredAt(offset[2] + 8))]_vars

\* The first method of the class with the wide pool is decoded with its one
\* attribute, named 'Code', declaring fewer than 8 bytes: the size recorded
\* is the 3 found at the attribute's start + 10.
C29_Witness ==
    /\ phase \in {"MethodLoop", "Failed", "Done"}
    /\ Len(buffer) = Len(WideClass)
    /\ Len(methods) >= 1
    /\ methods[1].bytecodeSize = W(3)
    /\ LET o == Len(buffer) - Len(Flatten(<<MemberInfo(4, 5, <<CodeAttribute(3, W(3), <<3, 87, 177>>)>>),
                                           MemberInfo(20, 5, <<CodeAttribute(3, W(2), <<0, 177>>)>>)>>))
       IN  /\ U16At(o + 6) = 1
           /\ NamedCodeAt(o + 8)
           /\ LT(DeclaredAt(o + 8), W(8))

\* The constant pool loop has ended without a throw.
PoolFinished == PhaseRank(phase) >= 4

\* C30 as stated: the finished table of a pool that declares a count of 1
\* or more has exactly that many slots, and the running index has ended at
\* the count, whatever the last entry is.
C30_PoolTableSize ==
    (PoolFinished /\ constantPoolCount >= 1) =>
        (Len(constantPool) = constantPoolCount /\ index = constantPoolCount)

\* C30, amended: from the first slot on, the table is as long as the
\* running index says. The finished table of a pool that declares a count
\* of 1 or more has that many slots, unless the last entry, at index
\* count - 1, is a Long or a Double: then the table has count + 1 slots, the
\* last one the placeholder, and the index has ended at count + 1. A
\* declared count of 0 gives the table of one slot.
C30_PoolTableSizeOrOneMore ==
    /\ (phase \notin {"Idle", "ExpectMagic", "ExpectVersion", "ExpectPool"}
          /\ constantPool # <<>>)
         => Len(constantPool) = index
    /\ (PoolFinished /\ constantPoolCount >= 1) =>
          LET last == constantPool[constantPoolCount] IN
          IF constantPoolCount >= 2 /\ last.kind = "entry" /\ last.tag \in {5, 6}
          THEN /\ index = constantPoolCount + 1
               /\ Len(constantPool) = constantPoolCount + 1
               /\ constantPool[constantPoolCount + 1] = Null
          ELSE /\ index = constantPoolCount
               /\ Len(constantPool) = constantPoolCount
    /\ (PoolFinished /\ constantPoolCount = 0) => (index = 1 /\ constantPool = <<Null>>)

\* A pool declared with count 5 has ended with the Long at index 4: six
\* slots, the index at 6.
C30_Witness ==
    /\ PoolFinished
    /\ constantPoolCount = 5
    /\ index = 6
    /\ Len(constantPool) = 6
    /\ constantPool[5].tag = 5
    /\ constantPool[6] = Null

----------------------------------------------------------------------------
(* Properties of a getTopMethods call *)

\* C18: getTopMethods returns the first min(n, length) entries of the list
\* it is given, in their order there, so exactly n entries whenever
\* n <= length, and leaves the list itself as it was.
C18_PrefixSlice ==
    /\ [](topPc = "returned" =>
            /\ Len(topReturned) = IF topN <= Len(topMethods) THEN topN ELSE Len(topMethods)
            /\ \A i \in 1..Len(topReturned) : topReturned[i] = topMethods[i])
    /\ [][topMethods' = topMethods]_vars

\* A call with n = 2 on a list of three that is not sorted by size.
C18_Witness ==
    /\ topPc = "returned"
    /\ topN = 2
    /\ Len(topMethods) = 3
    /\ LT(topMethods[1].bytecodeSize, topMethods[2].bytecodeSize)
    /\ Len(topReturned) = 2


----------------------------------------------------------------------------
(* Properties of two runs at once *)

\* What a run over archive a gives when no other run is in progress, and
\* the calls its progress sink receives.
AloneOutcome(a) ==
    LET found == FindClassFiles(a.entries) IN
    IF ~a.valid THEN Rejected(Error(<<"Invalid JAR file: not a valid ZIP archive">>))
    ELSE IF found = <<>> THEN NoClassFiles
    ELSE Returned(SortMethods(RecordsInOrder(found)), Len(found), WarningsInOrder(found))
AloneProgress(a, p) ==
    LET found == FindClassFiles(a.entries) IN
    IF a.valid /\ p THEN [k \in 1..Len(found) |-> <<k, Len(found)>>] ELSE <<>>

\* A run alone ends as AloneOutcome and AloneProgress say.
AloneAsModelled ==
    pc \in {"returned", "rejected"} =>
        /\ outcome = AloneOutcome(archive)
        /\ progressCalls = AloneProgress(archive, onProgress)

\* C20: of two runs over different archives resumed in any order at their
\* awaits, each ends with the methods, stats counts, warnings or rejection
\* it ends with when run alone, and its progress sink has at every moment
\* received the first calls of the sequence it receives alone, all of them
\* at the end.
C20_IndependentRuns ==
    \A r \in DOMAIN runs :
        LET run == runs[r]
            calls == AloneProgress(run.archive, run.onProgress)
        IN  /\ Len(run.progressCalls) <= Len(calls)
            /\ run.progressCalls = SubSeq(calls, 1, Len(run.progressCalls))
            /\ run.pc \in {"returned", "rejected"} =>
                  /\ run.outcome = AloneOutcome(run.archive)
                  /\ run.progressCalls = calls

\* The first run has returned two records and a warning while the second,
\* resumed before and not yet after, waits for its second entry with the
\* records of its first in its own array.
C20_Witness ==
    /\ DOMAIN runs = {1, 2}
    /\ runs[1].pc = "returned"
    /\ Len(runs[1].outcome.methods) = 2
    /\ Len(runs[1].outcome.warnings) = 1
    /\ runs[2].pc = "entryAsync"
    /\ runs[2].processedClasses = 1
    /\ Len(aggregation[2].allMethods) = 2
    /\ Len(runs[2].progressCalls) = 1


\* The decode of the entry fails.
Fails(e) == ReadAndParse(e).err # NoError

\* The two runs have the same entries to decode but for the k-th, which
\* has the same path in both and other bytes, or data that cannot be read
\* in one of them.
SameButFor(k) ==
    /\ Len(runs[1].classFiles) = Len(runs[2].classFiles)
    /\ k \in 1..Len(runs[1].classFiles)
    /\ runs[1].classFiles[k].path = runs[2].classFiles[k].path
    /\ runs[1].classFiles[k] # runs[2].classFiles[k]
    /\ \A i \in 1..Len(runs[1].classFiles) : i # k => runs[1].classFiles[i] = runs[2].classFiles[i]

\* The records the k-th entry of run r gives, and the warnings run r
\* returned without the one of its k-th entry.
OwnRecords(r, k) ==
    IF Fails(runs[r].classFiles[k]) THEN <<>>
    ELSE RecordsFor(ReadAndParse(runs[r].classFiles[k]))
WarningsOfOthers(r, k) ==
    LET files == runs[r].classFiles
        list == runs[r].outcome.warnings
        at == Cardinality({i \in 1..k : Fails(files[i])})
    IN  IF Fails(files[k]) THEN SubSeq(list, 1, at - 1) \o SubSeq(list, at + 1, Len(list))
        ELSE list

\* C21: when two runs have returned whose entries to decode are the same
\* but for the bytes of one, the lists they return hold the same records
\* the same number of times once the records of that entry are taken away,
\* and the same warnings in the same order once its warning is.
C21_EntryIsolation ==
    (DOMAIN runs = {1, 2} /\ runs[1].pc = "returned" /\ runs[2].pc = "returned") =>
        \A k \in 1..Len(runs[1].classFiles) :
            SameButFor(k) =>
                /\ WarningsOfOthers(1, k) = WarningsOfOthers(2, k)
                /\ \A i \in 1..2 : \A j \in 1..Len(runs[i].outcome.methods) :
                      LET x == runs[i].outcome.methods[j] IN
                      Occurrences(runs[1].outcome.methods, x) - Occurrences(OwnRecords(1, k), x)
                        = Occurrences(runs[2].outcome.methods, x) - Occurrences(OwnRecords(2, k), x)

\* Two returned runs over the cut class and a/B.class, the second of which
\* decodes in one run and is cut in the other: the first entry's warning in
\* both, two records in one and a second warning in the other.
C21_Witness ==
    /\ DOMAIN runs = {1, 2}
    /\ runs[1].pc = "returned" /\ runs[2].pc = "returned"
    /\ SameButFor(2)
    /\ Fails(runs[1].classFiles[1])
    /\ Len(runs[1].outcome.methods) = 2 /\ Len(runs[1].outcome.warnings) = 1
    /\ Len(runs[2].outcome.methods) = 0 /\ Len(runs[2].outcome.warnings) = 2

====
